---------------------------- MODULE Spec2Model ----------------------------
(***************************************************************************)
(* GitHub Mentions+ : trigger detection, candidate filtering, the          *)
(* suggestion overlay (src/utils/dom.js, latest revision, lines 869-1356)  *)
(* and the input watcher (src/content_script.js).                          *)
(*                                                                         *)
(* Strings are sequences of one-character strings, so that substring,      *)
(* includes, toLowerCase and the regular expressions of the source are     *)
(* computed character by character.                                        *)
(***************************************************************************)
EXTENDS Integers, Sequences, FiniteSets, TLC

(***************************************************************************)
(* Bounds of the model                                                     *)
(***************************************************************************)
\* longest text drawn for the matcher functions
MaxScanLen == 3
\* largest number of host-page suggestions drawn for filterUsers
MaxHost == 9
\* longest candidate list drawn for filterUsers
MaxCand == 3
\* longest text the user types into the textarea or edits
MaxLen == 3
\* most requests in flight at a time
MaxPending == 2
\* most timers waiting at a time
MaxTimers == 1
\* longest command list drawn for filterCommands
MaxCmds == 12
\* most blur listeners the scans put on one input
MaxListeners == 2
\* most hide timers waiting at a time
MaxHideTimers == 2
\* longest list handed to showOverlay by a caller of the overlay API
MaxShow == 5

(***************************************************************************)
(* Characters and JavaScript string primitives                             *)
(***************************************************************************)
LowerSeq == <<"a","b","c","d","e","f","g","h","i","j","k","l","m",
              "n","o","p","q","r","s","t","u","v","w","x","y","z">>
UpperSeq == <<"A","B","C","D","E","F","G","H","I","J","K","L","M",
              "N","O","P","Q","R","S","T","U","V","W","X","Y","Z">>
DigitSeq == <<"0","1","2","3","4","5","6","7","8","9">>

Range(s) == { s[i] : i \in 1..Len(s) }

\* the character class [a-zA-Z0-9-_] of the trigger regular expressions
WordChars == Range(LowerSeq) \cup Range(UpperSeq) \cup Range(DigitSeq) \cup {"-", "_"}

Min(a, b) == IF a < b THEN a ELSE b
Max(a, b) == IF a > b THEN a ELSE b

\* String.prototype.toLowerCase, one character
ToLowerChar(c) ==
  IF \E i \in 1..Len(UpperSeq) : UpperSeq[i] = c
  THEN LowerSeq[CHOOSE i \in 1..Len(UpperSeq) : UpperSeq[i] = c]
  ELSE c

\* String.prototype.toLowerCase
toLowerCase(s) == [i \in 1..Len(s) |-> ToLowerChar(s[i])]

\* String.prototype.substring(a, b): both ends clamped to [0, length] and
\* swapped when a > b; null and negative numbers count as 0
substring(s, a, b) ==
  LET ca == Max(0, Min(a, Len(s)))
      cb == Max(0, Min(b, Len(s)))
      lo == Min(ca, cb)
      hi == Max(ca, cb)
  IN  SubSeq(s, lo + 1, hi)

\* String.prototype.substring(a): from a to the end
substringFrom(s, a) == substring(s, a, Len(s))

\* String.prototype.includes
includes(s, q) ==
  \E i \in 0..(Len(s) - Len(q)) : SubSeq(s, i + 1, i + Len(q)) = q

\* Array.prototype.slice(0, e): a negative end counts from the end of the array
slice0(arr, e) ==
  LET end == IF e < 0 THEN Max(Len(arr) + e, 0) ELSE Min(e, Len(arr))
  IN  SubSeq(arr, 1, end)

(***************************************************************************)
(* Matcher: trigger detection (content_script.js)                          *)
(***************************************************************************)
NoMatch == [matched |-> FALSE, query |-> <<>>]

\* slice.match(/<trigger>([a-zA-Z0-9-_]*)$/): the regular expression is tried
\* at every start index from the left; at a start index it needs the trigger
\* character, then takes word characters greedily and must reach the end
RegexTail(sl, trigger, class) ==
  LET starts == { i \in 1..Len(sl) :
                    /\ sl[i] = trigger
                    /\ \A k \in (i + 1)..Len(sl) : sl[k] \in class }
  IN  IF starts = {} THEN NoMatch
      ELSE LET i == CHOOSE m \in starts : \A n \in starts : m <= n
           IN  [matched |-> TRUE, query |-> SubSeq(sl, i + 1, Len(sl))]

\* a plausible slip: the class written without '-' and '_'
scanForTrigger_NoDash(text, pos) ==
  RegexTail(substring(text, 0, pos), "@", WordChars \ {"-", "_"})

scanForTrigger(text, pos) ==
  RegexTail(substring(text, 0, pos), "@", WordChars)

scanForCommand(text, pos) ==
  RegexTail(substring(text, 0, pos), "!", WordChars)

(***************************************************************************)
(* Matcher: candidate filtering (content_script.js)                        *)
(***************************************************************************)
\* users.filter(user => !githubUsernames.some(g => g.toLowerCase() ===
\*                                            user.username.toLowerCase()))
NotSuggestedByGitHub(user, githubUsernames) ==
  ~ \E i \in 1..Len(githubUsernames) :
        toLowerCase(githubUsernames[i]) = toLowerCase(user.username)

\* a plausible slip: only the username is searched
MatchesQuery_UsernameOnly(user, lowerQuery) ==
  includes(toLowerCase(user.username), lowerQuery)

\* user.username.toLowerCase().includes(q) || user.name.toLowerCase().includes(q)
MatchesQuery(user, lowerQuery) ==
  \/ includes(toLowerCase(user.username), lowerQuery)
  \/ includes(toLowerCase(user.name), lowerQuery)

\* a plausible slip: the check of the empty query is left out, and since
\* every string includes "" the bare trigger lists the first candidates
filterUsers_BareAt(users, query, githubUsernames) ==
  IF Len(users) = 0 THEN <<>>
  ELSE
    LET Free(u)       == NotSuggestedByGitHub(u, githubUsernames)
        filteredUsers == SelectSeq(users, Free)
    IN  IF Len(filteredUsers) = 0 THEN <<>>
        ELSE
          LET lowerQuery    == toLowerCase(query)
              Hit(u)        == MatchesQuery(u, lowerQuery)
              matchingUsers == SelectSeq(filteredUsers, Hit)
              githubCount   == Len(githubUsernames)
              maxOurItems   == Min(4, 7 - githubCount)
          IN  slice0(matchingUsers, maxOurItems)

\* filterUsers(users, query); githubUsernames is what getGitHubSuggestions()
\* returns at the time of the call
filterUsers(users, query, githubUsernames) ==
  IF Len(users) = 0 THEN <<>>
  ELSE
    LET Free(u)       == NotSuggestedByGitHub(u, githubUsernames)
        filteredUsers == SelectSeq(users, Free)
    IN  IF Len(filteredUsers) = 0 THEN <<>>
        ELSE IF query = <<>> THEN <<>>
        ELSE
          LET lowerQuery    == toLowerCase(query)
              Hit(u)        == MatchesQuery(u, lowerQuery)
              matchingUsers == SelectSeq(filteredUsers, Hit)
              githubCount   == Len(githubUsernames)
              maxOurItems   == Min(4, 7 - githubCount)
          IN  slice0(matchingUsers, maxOurItems)

(***************************************************************************)
(* Inputs drawn for the matcher functions                                  *)
(***************************************************************************)
RECURSIVE SeqsUpTo(_, _)
SeqsUpTo(S, n) ==
  IF n = 0 THEN { <<>> }
  ELSE LET shorter == SeqsUpTo(S, n - 1)
       IN  shorter \cup { Append(q, c) : q \in shorter, c \in S }

\* a trigger of each kind, a letter, a hyphen, whitespace and punctuation
ScanChars == {"@", "!", "a", "-", " ", "."}

ScanTexts == SeqsUpTo(ScanChars, MaxScanLen)

UserJo  == [username |-> <<"J","o">>,     name |-> <<"A","l">>]
UserK   == [username |-> <<"k">>,         name |-> <<"j","O">>]
UserJoe == [username |-> <<"j","o","e">>, name |-> <<"x">>]

UserPool == {UserJo, UserK, UserJoe}

\* ten candidates that all match the query "j"
TenUsers == [i \in 1..10 |-> [username |-> <<"j", DigitSeq[i]>>, name |-> <<"n">>]]

CandidateLists == SeqsUpTo(UserPool, MaxCand) \cup {TenUsers}

Queries == { <<>>, <<"j">>, <<"J","o">>, <<"o">>, <<"z">> }

\* what GitHub's own overlay lists: some of the candidates' usernames in
\* another letter case, then unrelated names up to h entries
HostHeads == { <<>>, << <<"j","O">> >>, << <<"K">> >>, << <<"j","O">>, <<"K">> >> }

HostLists ==
  { hd \o [i \in 1..(h - Len(hd)) |-> <<"g","h">>] :
      hd \in HostHeads, h \in 0..MaxHost } 

(***************************************************************************)
(* State                                                                   *)
(***************************************************************************)
VARIABLES
  \* src/utils/dom.js, module state
  overlay,              \* TRUE when the overlay element exists (overlay !== null)
  display,              \* overlay.style.display: "none" or "block"
  popoverOpen,          \* overlay.matches(':popover-open')
  overlayItems,         \* the item elements, in order: the userData of each and
                        \* the onSelect callback its mousedown listener calls
  selectedIndex,
  currentSelectedIndex,
  navAge,               \* Date.now() - lastKeyNavTime in ms, saturating at KEY_NAV_DELAY
  position,             \* what overlay.style.left/top were computed from:
                        \* "none", "input", "host" or "cached"
  lastGoodPosition,     \* "null", or "host" for a position taken from the
                        \* host overlay
  \* src/content_script.js, module state
  activeInput,          \* "none" or the id of the activated input
  mentionStartPos,
  settings,
  cachedUsers,
  isInitialized,
  scanInterval,         \* setInterval(scanInputs, 1000) is running
  \* the page
  page,                 \* the candidate inputs in document order, each with
                        \* its id, its dataset.mentionEnhanced and its listeners
  focus,                \* document.activeElement: an input, or "body"
  value,                \* text of the textarea
  selectionStart,       \* its cursor
  keyHeld,              \* the key that is down and has not been released
  \* the event loop
  pending,              \* requests awaited by suspended handlers
  timers,               \* setTimeout callbacks not yet run
  \* bookkeeping of the verification
  last,                 \* the handler that ran last, the functions it called,
                        \* the input events it dispatched, and for a continuation or an item
                        \* its index
  fn,                   \* a call of a matcher function and its result
  \* src/utils/api.js, module state and calls in progress
  githubApiRequests,
  githubApiResetTime,
  avatarCalls,          \* the calls of fetchGitHubAvatar in progress, by position
  requestLog,           \* Date.now() at each request issued to api.github.com
  endpointCall,         \* the call of fetchUsersFromEndpoint in progress
  \* the environment
  now,                  \* Date.now(), in ms
  storage               \* chrome.storage.local

domVars    == <<overlay, display, popoverOpen, overlayItems,
                selectedIndex, currentSelectedIndex, navAge,
                position, lastGoodPosition>>
scriptVars == <<activeInput, mentionStartPos, settings, cachedUsers,
                isInitialized, scanInterval>>
pageVars   == <<page, focus, value, selectionStart, keyHeld>>
loopVars   == <<pending, timers>>
progVars   == <<domVars, scriptVars, pageVars, loopVars, last>>
apiVars    == <<githubApiRequests, githubApiResetTime, avatarCalls, requestLog,
                endpointCall>>
envVars    == <<apiVars, now, storage>>
vars       == <<progVars, fn, envVars>>

KEY_NAV_DELAY == 200

\* granularity of the clock, in ms: the delays of the program are 0, 50, 100 and 200
TickMs == 50

NullPos == -1

\* the whole program state as one value, so that a handler is a function
\* from state to state and nested calls compose
World ==
  [ overlay |-> overlay, display |-> display, popoverOpen |-> popoverOpen,
    overlayItems |-> overlayItems,
    selectedIndex |-> selectedIndex, currentSelectedIndex |-> currentSelectedIndex,
    navAge |-> navAge,
    position |-> position, lastGoodPosition |-> lastGoodPosition,
    activeInput |-> activeInput, mentionStartPos |-> mentionStartPos,
    settings |-> settings, cachedUsers |-> cachedUsers,
    isInitialized |-> isInitialized, scanInterval |-> scanInterval,
    page |-> page, focus |-> focus,
    value |-> value, selectionStart |-> selectionStart,
    keyHeld |-> keyHeld,
    pending |-> pending, timers |-> timers,
    github |-> <<>>, calls |-> {}, prevented |-> FALSE, inputEvents |-> 0,
    throws |-> {}, escaped |-> FALSE, hostOverlay |-> FALSE ]

\* the state after a step is w.  Scratch values of the step: w.github is what
\* getGitHubSuggestions() returns during the step (the usernames GitHub's own
\* overlay lists), w.calls the functions the step called (reported through
\* last), w.prevented whether e.preventDefault() was called and
\* w.inputEvents the number of input events the step dispatched, w.throws
\* the DOM methods that throw when the step calls them, and w.escaped
\* whether an exception has left the function that was called;
\* w.hostOverlay whether the page shows GitHub's own suggestion overlay
Becomes(w) ==
  /\ overlay' = w.overlay
  /\ display' = w.display
  /\ popoverOpen' = w.popoverOpen
  /\ overlayItems' = w.overlayItems
  /\ selectedIndex' = w.selectedIndex
  /\ currentSelectedIndex' = w.currentSelectedIndex
  /\ navAge' = w.navAge
  /\ position' = w.position
  /\ lastGoodPosition' = w.lastGoodPosition
  /\ activeInput' = w.activeInput
  /\ mentionStartPos' = w.mentionStartPos
  /\ settings' = w.settings
  /\ cachedUsers' = w.cachedUsers
  /\ isInitialized' = w.isInitialized
  /\ scanInterval' = w.scanInterval
  /\ page' = w.page
  /\ focus' = w.focus
  /\ value' = w.value
  /\ selectionStart' = w.selectionStart
  /\ keyHeld' = w.keyHeld
  /\ pending' = w.pending
  /\ timers' = w.timers

Called(w, name) == [w EXCEPT !.calls = @ \cup {name}]

(***************************************************************************)
(* Overlay renderer (src/utils/dom.js)                                     *)
(***************************************************************************)
\* the item elements showOverlay creates for the first four users
ItemElements(users, callback) ==
  LET shown == slice0(users, 4)
  IN  [i \in 1..Len(shown) |-> [userData |-> shown[i], onSelect |-> callback]]

\* an argument that passes Array.isArray, and one that does not
JsArray(elems) == [isArray |-> TRUE, elems |-> elems]
NotAnArray     == [isArray |-> FALSE, elems |-> <<>>]

IsCommandItem(item) == "isCommand" \in DOMAIN item /\ item.isCommand

isOverlayVisible(w) == w.overlay /\ (w.display # "none" \/ w.popoverOpen)

\* a plausible slip: the item list outlives the hiding
hideOverlay_KeepItems(w0) ==
  LET w == Called(w0, "hideOverlay")
  IN  IF w.overlay
      THEN [w EXCEPT !.popoverOpen = FALSE,
                     !.display = "none",
                     !.selectedIndex = 0]
      ELSE w

\* w.calls also tells which DOM methods were called: hidePopover() throws on
\* a popover that is not open, showPopover() on one that is open, and
\* getBoundingClientRect() cannot be called on null
hideOverlay(w0) ==
  LET w == Called(w0, "hideOverlay")
  IN  IF w.overlay
      THEN \* try { overlay.hidePopover() } catch (e) {}: the popover is
           \* closed whether the call returns or throws
           [(IF w.popoverOpen THEN Called(w, "hidePopover") ELSE w)
              EXCEPT !.popoverOpen = FALSE,
                     !.display = "none",
                     !.selectedIndex = 0,
                     !.overlayItems = <<>>]
      ELSE w

\* a plausible slip: the anchor is not checked
updateOverlayPosition_AnyAnchor(w, input) ==
  IF ~w.overlay THEN w
  ELSE [Called(IF w.popoverOpen THEN w ELSE Called(w, "showPopover"),
               "getBoundingClientRect")
          EXCEPT !.popoverOpen = TRUE, !.position = "input"]

\* updateOverlayPosition as it would be without the try around showPopover
updateOverlayPosition_NoCatch(w, input) ==
  IF ~w.overlay \/ input = "none" THEN w
  ELSE [w EXCEPT !.calls = @ \cup {"getBoundingClientRect"}
                          \cup (IF w.popoverOpen THEN {} ELSE {"showPopover"}),
                 !.position = "input",
                 !.escaped = @ \/ (~w.popoverOpen /\ "showPopover" \in w.throws),
                 !.popoverOpen = @ \/ "showPopover" \notin w.throws]

\* the position is always computed from the bounding box of the input:
\* the page is not searched for GitHub's overlay and lastGoodPosition is
\* not read or written.
\* try { overlay.showPopover() } catch (e) {}: a call that throws leaves the
\* popover closed and the function goes on
updateOverlayPosition(w, input) ==
  IF ~w.overlay \/ input = "none" THEN w
  ELSE [w EXCEPT !.calls = @ \cup {"getBoundingClientRect"}
                          \cup (IF w.popoverOpen THEN {} ELSE {"showPopover"}),
                 !.position = "input",
                 !.popoverOpen = @ \/ "showPopover" \notin w.throws]

\* scrollIntoView is called in a try of its own, the items are styled
\* whether it throws or not
updateSelection(w) ==
  LET w1 == IF w.selectedIndex < 0 \/ w.selectedIndex >= Len(w.overlayItems)
            THEN [w EXCEPT !.selectedIndex = 0, !.currentSelectedIndex = 0]
            ELSE w
  IN  [w1 EXCEPT !.currentSelectedIndex = w1.selectedIndex,
                 \* if (overlayItems[selectedIndex])
                 !.calls = IF w.overlayItems # <<>>
                           THEN @ \cup {"scrollIntoView"} ELSE @]

\* a plausible slip: the selection of the previous list is kept
showOverlay_KeepSelection(w0, users, callback, input) ==
  LET w == Called(w0, "showOverlay")
  IN  IF ~w.overlay \/ ~users.isArray \/ Len(users.elems) = 0 THEN w
      ELSE updateOverlayPosition(
             [w EXCEPT !.overlayItems = ItemElements(users.elems, callback),
                       !.navAge = KEY_NAV_DELAY,
                       !.display = "block"],
             input)

\* a plausible slip: the items of the previous list are kept
showOverlay_Append(w0, users, callback, input) ==
  LET w == Called(w0, "showOverlay")
  IN  IF ~w.overlay \/ ~users.isArray \/ Len(users.elems) = 0 THEN w
      ELSE updateOverlayPosition(
             [w EXCEPT !.selectedIndex = 0,
                       !.currentSelectedIndex = 0,
                       !.overlayItems = @ \o ItemElements(users.elems, callback),
                       !.navAge = KEY_NAV_DELAY,
                       !.display = "block"],
             input)

showOverlay(w0, users, callback, input) ==
  LET w == Called(w0, "showOverlay")
  IN
  IF ~w.overlay \/ ~users.isArray \/ Len(users.elems) = 0 THEN w
  ELSE updateOverlayPosition(
         [w EXCEPT !.selectedIndex = 0,
                   !.currentSelectedIndex = 0,
                   !.overlayItems = ItemElements(users.elems, callback),
                   !.navAge = KEY_NAV_DELAY,    \* lastKeyNavTime = 0
                   !.display = "block"],
         input)

createOverlay(w) ==
  IF w.overlay THEN w
  ELSE [w EXCEPT !.overlay = TRUE, !.display = "none", !.popoverOpen = FALSE,
                 !.position = "none"]

removeOverlay(w) ==
  IF w.overlay
  THEN [w EXCEPT !.overlay = FALSE, !.popoverOpen = FALSE,
                 !.lastGoodPosition = "null"]
  ELSE w

\* the mouseenter listener of item number index
mouseenter(w, index) ==
  IF w.selectedIndex # index
  THEN updateSelection([w EXCEPT !.selectedIndex = index])
  ELSE w

\* results of handleKeyNavigation: false, true, or the selected userData
NavFalse      == [kind |-> "false"]
NavTrue       == [kind |-> "true"]
NavItem(item) == [kind |-> "item", item |-> item]

\* a plausible slip: the selection stops at the last item
NextIndex_NoWrap(index, n) == Min(index + 1, n - 1)

NextIndex(index, n) == (index + 1) % n

PrevIndex(index, n) == (index - 1 + n) % n

\* a plausible slip: no debounce, every arrow key moves the selection
handleKeyNavigation_NoDebounce(w, key) ==
  IF ~w.overlay \/ ~isOverlayVisible(w) \/ Len(w.overlayItems) = 0
  THEN [w |-> w, ret |-> NavFalse]
  ELSE
    LET n  == Len(w.overlayItems)
        p  == [w EXCEPT !.prevented = TRUE]
        Move(newIndex) ==
          IF n > 1 /\ newIndex # w.selectedIndex
          THEN [updateSelection([p EXCEPT !.selectedIndex = newIndex,
                                          !.currentSelectedIndex = newIndex])
                  EXCEPT !.navAge = 0]
          ELSE p
    IN  CASE key = "ArrowDown" ->
               [w |-> Move(NextIndex(w.selectedIndex, n)), ret |-> NavTrue]
          [] key = "ArrowUp" ->
               [w |-> Move(PrevIndex(w.selectedIndex, n)), ret |-> NavTrue]
          [] key = "Enter" ->
               [w |-> p, ret |-> NavItem(w.overlayItems[w.selectedIndex + 1].userData)]
          [] key = "Escape" ->
               [w |-> hideOverlay(p), ret |-> NavTrue]
          [] OTHER -> [w |-> w, ret |-> NavFalse]

\* a plausible slip: Tab commits the selection as Enter does
handleKeyNavigation_TabCommits(w, key) ==
  IF ~w.overlay \/ ~isOverlayVisible(w) \/ Len(w.overlayItems) = 0
  THEN [w |-> w, ret |-> NavFalse]
  ELSE
    LET n  == Len(w.overlayItems)
        w1 == IF /\ w.selectedIndex # w.currentSelectedIndex
                 /\ w.currentSelectedIndex >= 0
                 /\ w.currentSelectedIndex < n
              THEN updateSelection([w EXCEPT !.selectedIndex = w.currentSelectedIndex])
              ELSE w
        p  == [w1 EXCEPT !.prevented = TRUE]
        Move(newIndex) ==
          IF n > 1 /\ newIndex # w1.selectedIndex
          THEN [updateSelection([p EXCEPT !.selectedIndex = newIndex,
                                          !.currentSelectedIndex = newIndex])
                  EXCEPT !.navAge = 0]             \* lastKeyNavTime = now
          ELSE p
    IN  IF w1.navAge < KEY_NAV_DELAY /\ key \in {"ArrowDown", "ArrowUp"}
        THEN [w |-> p, ret |-> NavTrue]
        ELSE CASE key = "ArrowDown" ->
                    [w |-> Move(NextIndex(w1.selectedIndex, n)), ret |-> NavTrue]
               [] key = "ArrowUp" ->
                    [w |-> Move(PrevIndex(w1.selectedIndex, n)), ret |-> NavTrue]
               [] key = "Enter" ->
                    IF w1.selectedIndex >= 0 /\ w1.selectedIndex < n
                    THEN [w |-> p, ret |-> NavItem(w1.overlayItems[w1.selectedIndex + 1].userData)]
                    ELSE [w |-> p, ret |-> NavFalse]
               [] key = "Escape" ->
                    [w |-> hideOverlay(p), ret |-> NavTrue]
               [] key = "Tab" ->
                    [w |-> p, ret |-> NavItem(w1.overlayItems[w1.selectedIndex + 1].userData)]
               [] OTHER -> [w |-> w1, ret |-> NavFalse]

\* handleKeyNavigation(e): the new state in .w (with .w.prevented set when
\* e.preventDefault() was called) and the returned value in .ret
handleKeyNavigation(w, key) ==
  IF ~w.overlay \/ ~isOverlayVisible(w) \/ Len(w.overlayItems) = 0
  THEN [w |-> w, ret |-> NavFalse]
  ELSE
    LET n  == Len(w.overlayItems)
        w1 == IF /\ w.selectedIndex # w.currentSelectedIndex
                 /\ w.currentSelectedIndex >= 0
                 /\ w.currentSelectedIndex < n
              THEN updateSelection([w EXCEPT !.selectedIndex = w.currentSelectedIndex])
              ELSE w
        p  == [w1 EXCEPT !.prevented = TRUE]
        Move(newIndex) ==
          IF n > 1 /\ newIndex # w1.selectedIndex
          THEN [updateSelection([p EXCEPT !.selectedIndex = newIndex,
                                          !.currentSelectedIndex = newIndex])
                  EXCEPT !.navAge = 0]             \* lastKeyNavTime = now
          ELSE p
    IN  IF w1.navAge < KEY_NAV_DELAY /\ key \in {"ArrowDown", "ArrowUp"}
        THEN [w |-> p, ret |-> NavTrue]
        ELSE CASE key = "ArrowDown" ->
                    [w |-> Move(NextIndex(w1.selectedIndex, n)), ret |-> NavTrue]
               [] key = "ArrowUp" ->
                    [w |-> Move(PrevIndex(w1.selectedIndex, n)), ret |-> NavTrue]
               [] key = "Enter" ->
                    IF w1.selectedIndex >= 0 /\ w1.selectedIndex < n
                    THEN [w |-> p, ret |-> NavItem(w1.overlayItems[w1.selectedIndex + 1].userData)]
                    ELSE [w |-> p, ret |-> NavFalse]
               [] key = "Escape" ->
                    [w |-> hideOverlay(p), ret |-> NavTrue]
               [] OTHER -> [w |-> w1, ret |-> NavFalse]

\* a plausible slip: the first item whatever is highlighted
getSelectedItem_First(w) ==
  IF Len(w.overlayItems) > 0
  THEN NavItem(w.overlayItems[1].userData)
  ELSE NavFalse

getSelectedItem(w) ==
  IF /\ Len(w.overlayItems) > 0
     /\ w.selectedIndex >= 0
     /\ w.selectedIndex < Len(w.overlayItems)
  THEN NavItem(w.overlayItems[w.selectedIndex + 1].userData)
  ELSE NavFalse

(***************************************************************************)
(* Input watcher (src/content_script.js)                                   *)
(***************************************************************************)
\* the strings of the source, as characters
Chars_lgtmrand  == <<"l","g","t","m","r","a","n","d">>
Chars_timestamp == <<"$","{","t","i","m","e","s","t","a","m","p","}">>
Chars_date      == <<"$","{","d","a","t","e","}">>
Chars_time      == <<"$","{","t","i","m","e","}">>
Chars_dots      == <<".",".",".">>

\* '![LGTM](' + imageUrl + ')', abbreviated to '![](u)'
LgtmResult == <<"!","[","]","(","u",")">>

\* new Date().toISOString(), toLocaleDateString() and toLocaleTimeString(),
\* abbreviated: digits and separators, as in 2026-11-04T10:00:00.000Z,
\* 11/4/2026 and 10:00:00
IsoString  == <<"1","T","1","Z">>
DateString == <<"1","/","1">>
TimeString == <<"1",":","1">>

\* String.prototype.replace(/pat/g, rep) for a pattern without operators:
\* the matches are found from the left and do not overlap
RECURSIVE replaceAll(_, _, _)
replaceAll(str, pat, rep) ==
  IF Len(str) < Len(pat) THEN str
  ELSE IF SubSeq(str, 1, Len(pat)) = pat
       THEN rep \o replaceAll(SubSeq(str, Len(pat) + 1, Len(str)), pat, rep)
       ELSE <<Head(str)>> \o replaceAll(Tail(str), pat, rep)

\* executeCommand, lines 248-253
expandTemplate(commandContent) ==
  replaceAll(replaceAll(replaceAll(commandContent, Chars_timestamp, IsoString),
                        Chars_date, DateString),
             Chars_time, TimeString)

\* customCommands[command]: the entries are kept in the order of Object.keys
HasCommand(customCommands, command) ==
  \E i \in 1..Len(customCommands) : customCommands[i].command = command

CommandData(customCommands, command) ==
  customCommands[CHOOSE i \in 1..Len(customCommands) :
                   customCommands[i].command = command]

\* the text a command other than lgtmrand expands to ('' when it is unknown)
commandResult(w, command) ==
  IF HasCommand(w.settings.customCommands, command)
  THEN expandTemplate(CommandData(w.settings.customCommands, command).content)
  ELSE <<>>

onInput(w) ==
  IF w.activeInput = "none" \/ ~w.settings.enabled THEN w
  ELSE IF /\ ~scanForTrigger(w.value, w.selectionStart).matched
          /\ ~scanForCommand(w.value, w.selectionStart).matched
       THEN hideOverlay(w)
       ELSE w

\* input.dispatchEvent(new Event('input')): the listener of the activated
\* input runs before dispatchEvent returns
dispatchInput(w) ==
  onInput([Called(w, "dispatchEvent") EXCEPT !.inputEvents = @ + 1])

\* a plausible slip: the text after the cursor is dropped
insertMention_DropAfter(w0, username) ==
  IF w0.activeInput = "none" THEN w0
  ELSE
    LET w           == Called(w0, "insertMention")
        before      == substring(w.value, 0, w.mentionStartPos)
        mentionText == <<"@">> \o username \o <<" ">>
    IN  dispatchInput([w EXCEPT !.value = before \o mentionText,
                                !.selectionStart = Len(before) + Len(mentionText)])

insertMention(w0, username) ==
  IF w0.activeInput = "none" THEN w0
  ELSE
    LET w           == Called(w0, "insertMention")
        val         == w.value
        cursor      == w.selectionStart
        before      == substring(val, 0, w.mentionStartPos)
        after       == substringFrom(val, cursor)
        mentionText == <<"@">> \o username \o <<" ">>
        newCursorPos == Len(before) + Len(mentionText)
    IN  dispatchInput([w EXCEPT !.value = before \o mentionText \o after,
                                !.selectionStart = newCursorPos])

\* a plausible slip: the '!' is not counted in the span that is replaced
insertResult_KeepBang(w0, result, input) ==
  IF result = <<>> \/ input = "none" THEN w0
  ELSE
    LET w            == Called(w0, "insertResult")
        cursor       == w.selectionStart
        commandMatch == scanForCommand(w.value, cursor)
    IN  IF commandMatch.matched
        THEN LET commandStart == cursor - Len(commandMatch.query)
             IN  dispatchInput(
                   [w EXCEPT !.value = substring(w.value, 0, commandStart) \o result
                                         \o substringFrom(w.value, cursor),
                             !.selectionStart = commandStart + Len(result)])
        ELSE w

\* executeCommand, lines 257-276; reading input.selectionStart of a null
\* input throws, which the catch of executeCommand swallows
insertResult(w0, result, input) ==
  IF result = <<>> \/ input = "none" THEN w0
  ELSE
    LET w            == Called(w0, "insertResult")
        cursor       == w.selectionStart
        text         == w.value
        afterCursor  == substringFrom(text, cursor)
        commandMatch == scanForCommand(text, cursor)
    IN  IF commandMatch.matched
        THEN LET commandStart == cursor - (Len(commandMatch.query) + 1)
                 newText      == substring(text, 0, commandStart) \o result \o afterCursor
             IN  dispatchInput([w EXCEPT !.value = newText,
                                         !.selectionStart = commandStart + Len(result)])
        ELSE w

\* executeCommand(command, input) followed by what its caller does once the
\* returned promise settles: thenHide says whether that is hideOverlay().
\* For lgtmrand the function is suspended on the answer of the background
\* script; for every other command it runs to its end without yielding to
\* another event
executeCommand(w, command, input, thenHide) ==
  IF command = Chars_lgtmrand
  THEN [w EXCEPT !.pending = Append(@, [kind |-> "lgtm", input |-> input,
                                        thenHide |-> thenHide])]
  ELSE LET w1 == insertResult(w, commandResult(w, command), input)
       IN  IF thenHide THEN hideOverlay(w1) ELSE w1

\* the continuation of executeCommand after the answer of the background script
resumeExecuteCommand(w, req) ==
  LET w1 == insertResult(w, LgtmResult, req.input)
  IN  IF req.thenHide THEN hideOverlay(w1) ELSE w1

DescriptionOf(content) == substring(content, 0, 50) \o Chars_dots

\* 'Insert a random LGTM GIF from GIPHY', abbreviated
LgtmDescription == <<"L","G","T","M"," ","G","I","F">>

getAvailableCommands(w) ==
  LET builtInCommands == << [command |-> Chars_lgtmrand, description |-> LgtmDescription] >>
      customCommands  == w.settings.customCommands
      userCommands    == [i \in 1..Len(customCommands) |->
                            [command     |-> customCommands[i].command,
                             description |-> DescriptionOf(customCommands[i].content)]]
  IN  slice0(builtInCommands \o userCommands, 10)

\* a plausible slip: the names are compared without folding the letter case
filterCommands_CaseSensitive(commands, query) ==
  IF Len(commands) = 0 THEN <<>>
  ELSE IF query = <<>> THEN slice0(commands, 10)
  ELSE LET Hit(cmd) == includes(cmd.command, query)
       IN  slice0(SelectSeq(commands, Hit), 10)

filterCommands(commands, query) ==
  IF Len(commands) = 0 THEN <<>>
  ELSE IF query = <<>> THEN slice0(commands, 10)
  ELSE LET lowerQuery == toLowerCase(query)
           Hit(cmd)   == includes(toLowerCase(cmd.command), lowerQuery)
       IN  slice0(SelectSeq(commands, Hit), 10)

\* commands dressed as users for the overlay (onKeyUp, lines 489-494)
commandItems(matches) ==
  [i \in 1..Len(matches) |->
     [username  |-> matches[i].command,
      name      |-> IF matches[i].description # <<>> THEN matches[i].description
                    ELSE matches[i].command,
      isCommand |-> TRUE]]

\* a plausible slip: the overlay is left as it is when nothing matches
showCommandsOrHide_NoHide(w, commandInfo) ==
  LET matches == IF commandInfo.matched
                 THEN filterCommands(getAvailableCommands(w), commandInfo.query)
                 ELSE <<>>
  IN  IF Len(matches) > 0
      THEN showOverlay(w, JsArray(commandItems(matches)), "executeCommand", w.activeInput)
      ELSE w

\* onKeyUp, lines 481-506: the command branch and the final hideOverlay
showCommandsOrHide(w, commandInfo) ==
  LET matches == IF commandInfo.matched
                 THEN filterCommands(getAvailableCommands(w), commandInfo.query)
                 ELSE <<>>
  IN  IF Len(matches) > 0
      THEN showOverlay(w, JsArray(commandItems(matches)), "executeCommand", w.activeInput)
      ELSE hideOverlay(w)

\* onKeyUp, lines 470-506: what follows `await getUsersForSuggestions()`;
\* mentionQuery and commandInfo are the locals computed before the await
afterUsers(w, users, mentionQuery, commandInfo) ==
  LET matches == filterUsers(users, mentionQuery, w.github)
  IN  IF Len(matches) > 0
      THEN showOverlay(w, JsArray(matches), "insertMention", w.activeInput)
      ELSE showCommandsOrHide(w, commandInfo)

\* /^[a-zA-Z0-9-_]$/.test(key), '@', '!', Backspace, Delete, Escape, Enter
AllowedKey(key) ==
  \/ key \in WordChars
  \/ key \in {"@", "!", "Backspace", "Delete", "Escape", "Enter"}

\* the item returned by handleKeyNavigation on Enter is committed
\* (onKeyUp, lines 403-420)
commitOnKeyUp(w, item) ==
  LET mentionQuery == scanForTrigger(w.value, w.selectionStart)
      commandInfo  == scanForCommand(w.value, w.selectionStart)
  IN  IF mentionQuery.matched
      THEN hideOverlay(insertMention(w, item.username))
      ELSE IF commandInfo.matched /\ IsCommandItem(item)
           THEN executeCommand(w, item.username, w.activeInput, TRUE)
           ELSE hideOverlay(w)

\* onKeyUp(e) up to its first suspension: with an empty cache
\* getUsersForSuggestions awaits the storage (and possibly the network), and
\* the rest of the handler is left in pending; with a filled cache the
\* handler runs to its end without yielding to another event
onKeyUp(w0, key) ==
  IF w0.activeInput = "none" \/ ~w0.settings.enabled THEN w0
  ELSE
    LET nav == handleKeyNavigation(w0, key)
        w   == nav.w
    IN  CASE nav.ret.kind = "true" -> w
          [] nav.ret.kind = "item" -> commitOnKeyUp(w, nav.ret.item)
          [] OTHER ->
             IF ~AllowedKey(key) THEN w
             ELSE IF key = "Escape" THEN hideOverlay(w)
             ELSE
               LET cursor       == w.selectionStart
                   text         == w.value
                   mentionQuery == scanForTrigger(text, cursor)
                   commandInfo  == scanForCommand(text, cursor)
               IN  IF key = "Enter" /\ commandInfo.matched
                   THEN executeCommand(w, commandInfo.query, w.activeInput, TRUE)
                   ELSE IF mentionQuery.matched
                   THEN LET w1 == [w EXCEPT !.mentionStartPos =
                                              cursor - Len(mentionQuery.query) - 1]
                        IN  IF Len(w1.cachedUsers) > 0
                            THEN afterUsers(w1, w1.cachedUsers, mentionQuery.query, commandInfo)
                            ELSE [w1 EXCEPT !.pending =
                                    Append(@, [kind         |-> "users",
                                               mentionQuery |-> mentionQuery.query,
                                               commandInfo  |-> commandInfo])]
                   ELSE showCommandsOrHide(w, commandInfo)

\* the rest of onKeyUp once getUsersForSuggestions has settled: loaded is
\* the list it resolved with (empty when the settings name no usable source,
\* the data is malformed or the load failed); a list that was loaded has
\* been assigned to cachedUsers
resumeOnKeyUp(w, req, loaded) ==
  LET w1 == IF Len(loaded) > 0 THEN [w EXCEPT !.cachedUsers = loaded] ELSE w
  IN  afterUsers(w1, loaded, req.mentionQuery, req.commandInfo)

\* setTimeout(callback, delay)
setTimeout(w, timer, delay) ==
  [w EXCEPT !.timers = Append(@, [timer EXCEPT !.remaining = delay])]

ExecTimer(command) == [kind |-> "executeCommand", command |-> command, remaining |-> 0]
SelectTimer(item, callback) ==
  [kind |-> "onSelect", item |-> item, callback |-> callback, remaining |-> 0]

\* handleEscapeKey(e), the keydown listener of the document
handleEscapeKey(w0, key) ==
  LET nav == handleKeyNavigation(w0, key)
      w   == nav.w
      on  == w.activeInput # "none" /\ w.settings.enabled
  IN  CASE nav.ret.kind = "true" -> w
        [] nav.ret.kind = "item" ->
             IF on
             THEN LET mentionQuery == scanForTrigger(w.value, w.selectionStart)
                      commandInfo  == scanForCommand(w.value, w.selectionStart)
                  IN  IF mentionQuery.matched
                      THEN insertMention(w, nav.ret.item.username)
                      ELSE IF commandInfo.matched /\ IsCommandItem(nav.ret.item)
                           THEN setTimeout(w, ExecTimer(nav.ret.item.username), 0)
                           ELSE w
             ELSE w
        [] OTHER ->
             IF key = "Escape" THEN hideOverlay(w)
             ELSE IF key = "Enter" /\ on
             THEN LET commandInfo == scanForCommand(w.value, w.selectionStart)
                  IN  IF commandInfo.matched
                      THEN setTimeout([w EXCEPT !.prevented = TRUE],
                                      ExecTimer(commandInfo.query), 0)
                      ELSE w
             ELSE w

\* the mousedown listener of an item element (showOverlay, lines 1047-1057)
\* mousedown as it would be if it committed the highlighted item
mousedown_Highlighted(w, index) ==
  LET el == w.overlayItems[w.selectedIndex + 1]
  IN  hideOverlay(setTimeout(w, SelectTimer(el.userData, el.onSelect), 50))

mousedown(w, index) ==
  LET el == w.overlayItems[index + 1]
  IN  hideOverlay(setTimeout(w, SelectTimer(el.userData, el.onSelect), 50))

\* a timer callback runs
runTimer(w, t) ==
  CASE t.kind = "hideOverlay" -> hideOverlay(w)
    [] t.kind = "executeCommand" ->
         executeCommand(w, t.command, w.activeInput, TRUE)
    [] t.kind = "onSelect" /\ t.callback = "insertMention" ->
         insertMention(w, t.item.username)
    [] t.kind = "onSelect" /\ t.callback = "executeCommand" ->
         executeCommand(w, t.item.username, w.activeInput, FALSE)
    [] OTHER -> w

\* a candidate input of the page (textarea or contenteditable) that no scan
\* has met yet
Element(name, id) ==
  [name |-> name, id |-> id, enhanced |-> "unset",
   keyup |-> FALSE, input |-> FALSE, blur |-> 0]

\* the callback of the blur listener's timer (activateInput, lines 551-555)
HideTimer == [kind |-> "hideOverlay", remaining |-> 0]

\* activateInput(input) for the i-th input of the page: addEventListener
\* ignores a listener that is already registered, which onKeyUp and onInput
\* are from the second call on; the arrow function for blur is a new
\* function at every call
activateInput(w, i) ==
  [w EXCEPT !.activeInput = w.page[i].name,
            !.page[i].enhanced = "true",
            !.page[i].keyup = TRUE,
            !.page[i].input = TRUE,
            !.page[i].blur = @ + 1]

\* the element activateInput has been called for once
Activated(el) ==
  [el EXCEPT !.enhanced = "true", !.keyup = TRUE, !.input = TRUE, !.blur = 1]

\* document.activeElement.id; body has no id
ActiveElementId(w) ==
  IF w.focus = "body" THEN ""
  ELSE LET i == CHOOSE k \in 1..Len(w.page) : w.page[k].name = w.focus
       IN  w.page[i].id

\* scanInputs(): inputs.forEach from input number i on
RECURSIVE scanFrom(_, _)
scanFrom(w, i) ==
  IF i > Len(w.page) THEN w
  ELSE scanFrom(IF w.page[i].id = ActiveElementId(w)
                THEN activateInput(w, i)
                ELSE [w EXCEPT !.page[i].enhanced = "false"],
                i + 1)

scanInputs(w) == scanFrom(w, 1)

\* the blur event of the input named name: every blur listener runs
RECURSIVE blurListeners(_, _)
blurListeners(w, k) ==
  IF k = 0 THEN w ELSE blurListeners(setTimeout(w, HideTimer, 100), k - 1)

\* a blur listener as it would be without the grace delay
blur_HideNow(w, name) == hideOverlay(w)

blur(w, name) ==
  LET i == CHOOSE k \in 1..Len(w.page) : w.page[k].name = name
  IN  blurListeners(w, w.page[i].blur)

\* settings before initialize() has loaded them: null
NoSettings == [enabled |-> FALSE, customCommands |-> <<>>]

\* initialize(); stored is what the storage holds.  The awaits of the storage
\* are not interleaved with other events here
initialize(w, stored) ==
  IF w.isInitialized THEN w
  ELSE [scanInputs(createOverlay([w EXCEPT !.settings = stored.settings,
                                           !.cachedUsers = stored.cachedUsers]))
          EXCEPT !.scanInterval = TRUE,      \* setInterval(scanInputs, 1000)
                 !.isInitialized = TRUE]

\* cleanup as it would be if it kept the active input
cleanup_KeepActive(w) ==
  [removeOverlay(w) EXCEPT !.mentionStartPos = NullPos,
                           !.isInitialized = FALSE]

\* cleanup(): every statement is inside a try; the listeners of the inputs
\* and of the document and the scan interval are left as they are
cleanup(w) ==
  [removeOverlay(w) EXCEPT !.activeInput = "none",
                           !.mentionStartPos = NullPos,
                           !.isInitialized = FALSE]

handleClickOutside(w) ==
  IF isOverlayVisible(w) THEN hideOverlay(w) ELSE w

handleVisibilityChange(w, hidden) ==
  IF hidden THEN hideOverlay(w) ELSE w

handleResize(w) ==
  IF w.activeInput # "none" /\ isOverlayVisible(w)
  THEN updateOverlayPosition(w, w.activeInput)
  ELSE w

(***************************************************************************)
(* The program: events of the page and of the event loop                   *)
(***************************************************************************)
\* settings.customCommands as saved by the settings popup
CustomCommands ==
  << [command |-> <<"j">>,     content |-> <<"k"," ">> \o Chars_time],
     [command |-> <<"j","j">>, content |-> <<"$","{">> \o Chars_date] >>

Settings0 == [enabled |-> TRUE, customCommands |-> CustomCommands]

\* the users of the configured data source
ProviderUsers == <<UserJo, UserK>>

\* what GitHub's overlay may list while the user types
HostStates == { <<>>, << <<"j","O">> >> }

NoCall == [name |-> "none"]

\* 60 * 60 * 1000: the rate-limit window of checkGitHubRateLimit
HOUR_MS == 3600000
\* granularity of Date.now()
ClockTick == HOUR_MS
\* Date.now() when the page is loaded
ClockStart == HOUR_MS

\* chrome.storage.local without any key of the extension: keys are the keys
\* it holds, and a key it does not hold reads as undefined whatever the
\* field of that name says
EmptyStorage ==
  [keys |-> {},
   githubMentions_userCache |-> <<>>,
   githubMentions_cacheTimestamp |-> 0,
   githubMentions_settings |-> [endpointUrl |-> "", enabled |-> TRUE]]

\* the calls of fetchGitHubAvatar by position: todo are the users that
\* users.map() of enhanceUsersWithAvatars has not reached yet, started the
\* calls suspended at the await of checkGitHubRateLimit() that the check has
\* allowed, awaiting the calls suspended at the await of their response
NoAvatarCalls == [todo |-> <<>>, started |-> 0, awaiting |-> 0]

\* api.js and the environment when the page is loaded
InitEnv ==
  /\ githubApiRequests = 0
  /\ githubApiResetTime = 0
  /\ avatarCalls = NoAvatarCalls
  /\ requestLog = <<>>
  /\ endpointCall = NoCall
  /\ now = ClockStart
  /\ storage = EmptyStorage

\* the state once initialize() has run with the textarea focused: the overlay
\* element exists and scanInputs() has activated the textarea
InitProgram ==
  /\ overlay = TRUE
  /\ display = "none"
  /\ popoverOpen = FALSE
  /\ overlayItems = <<>>
  /\ selectedIndex = 0
  /\ currentSelectedIndex = 0
  /\ position = "none"
  /\ lastGoodPosition = "null"
  /\ navAge = KEY_NAV_DELAY         \* lastKeyNavTime = 0
  /\ activeInput = "ta"
  /\ mentionStartPos = NullPos
  /\ settings = Settings0
  /\ isInitialized = TRUE
  /\ scanInterval = TRUE
  /\ page = << Activated(Element("ta", "new_comment_field")) >>
  /\ focus = "ta"
  /\ value = <<>>
  /\ selectionStart = 0
  /\ keyHeld = "none"
  /\ pending = <<>>
  /\ timers = <<>>
  /\ last = [op |-> "init", arg |-> 0, inputs |-> 0, calls |-> {}]

\* a step of the program that ends in state w
\* the timers of ts other than the hide timers of the blur listeners
Callbacks(ts) == { i \in 1..Len(ts) : ts[i].kind # "hideOverlay" }

Step(w, op, arg) ==
  /\ Len(w.pending) <= Max(MaxPending, Len(pending))
  /\ Cardinality(Callbacks(w.timers)) <= Max(MaxTimers, Cardinality(Callbacks(timers)))
  /\ Becomes(w)
  /\ last' = [op |-> op, arg |-> arg, inputs |-> w.inputEvents,
              calls |-> IF w.prevented THEN w.calls \cup {"preventDefault"} ELSE w.calls]
  /\ UNCHANGED <<fn, envVars>>

\* the state a handler starts from; GitHub's overlay lists github
WorldWith(github) == [World EXCEPT !.github = github]

InsertAt(text, cursor, c) ==
  SubSeq(text, 1, cursor) \o <<c>> \o SubSeq(text, cursor + 1, Len(text))

\* what the browser does with a key that no listener prevented; a change of
\* the text is followed by an input event, which onInput receives
DefaultAction(w, key) ==
  CASE key \in {"@", "!", "j", "z", " "} ->
         onInput([w EXCEPT !.value = InsertAt(w.value, w.selectionStart, key),
                           !.selectionStart = w.selectionStart + 1])
    [] key = "Enter" ->
         onInput([w EXCEPT !.value = InsertAt(w.value, w.selectionStart, "\n"),
                           !.selectionStart = w.selectionStart + 1])
    [] key = "Backspace" /\ w.selectionStart > 0 ->
         onInput([w EXCEPT !.value = SubSeq(w.value, 1, w.selectionStart - 1)
                                       \o SubSeq(w.value, w.selectionStart + 1, Len(w.value)),
                           !.selectionStart = w.selectionStart - 1])
    [] key = "ArrowLeft" /\ w.selectionStart > 0 ->
         [w EXCEPT !.selectionStart = w.selectionStart - 1]
    [] key = "ArrowUp"   -> [w EXCEPT !.selectionStart = 0]
    [] key = "ArrowDown" -> [w EXCEPT !.selectionStart = Len(w.value)]
    [] OTHER -> w

\* a key goes down in the focused textarea: the keydown listener of the
\* document runs, then the default action of the key.  The user edits and
\* moves the cursor in texts of at most MaxLen characters
KeyDown(key) ==
  /\ keyHeld = "none"
  /\ LET w1 == handleEscapeKey(World, key)
         w2 == IF w1.prevented THEN w1 ELSE DefaultAction(w1, key)
     IN  /\ Len(w2.value) > Len(w1.value) => Len(w1.value) < MaxLen
         /\ <<w2.value, w2.selectionStart>> # <<w1.value, w1.selectionStart>>
               => Len(w1.value) <= MaxLen
         /\ Step([w2 EXCEPT !.keyHeld = key], "keydown", 0)

\* the key is released: the keyup listener of the textarea runs
KeyUp ==
  /\ keyHeld # "none"
  /\ \E github \in HostStates :
       Step([onKeyUp(WorldWith(github), keyHeld) EXCEPT !.keyHeld = "none"], "keyup", 0)

Without(sq, i) == SubSeq(sq, 1, i - 1) \o SubSeq(sq, i + 1, Len(sq))

\* getUsersForSuggestions settles and the suspended onKeyUp goes on
ResumeOnKeyUp(i) ==
  /\ i \in 1..Len(pending)
  /\ pending[i].kind = "users"
  /\ \E loaded \in {<<>>, ProviderUsers}, github \in HostStates :
       Step(resumeOnKeyUp([WorldWith(github) EXCEPT !.pending = Without(pending, i)],
                          pending[i], loaded),
            "resumeOnKeyUp", i)

\* the background script answers and the suspended executeCommand goes on
ResumeExecuteCommand(i) ==
  /\ i \in 1..Len(pending)
  /\ pending[i].kind = "lgtm"
  /\ Step(resumeExecuteCommand([World EXCEPT !.pending = Without(pending, i)],
                                pending[i]),
          "resumeExecuteCommand", i)

\* the item elements can be pointed at while the overlay element is displayed
ItemShown(index) ==
  overlay /\ display = "block" /\ index \in 0..(Len(overlayItems) - 1)

MouseEnter(index) ==
  /\ ItemShown(index)
  /\ Step(mouseenter(World, index), "mouseenter", index)

MouseDown(index) ==
  /\ ItemShown(index)
  /\ Step(mousedown(World, index), "mousedown", index)

\* the timer that is due first runs
Timeout(i) ==
  /\ i \in 1..Len(timers)
  /\ timers[i].remaining = 0
  /\ \A j \in 1..(i - 1) : timers[j].remaining > 0
  /\ Step(runTimer([World EXCEPT !.timers = Without(timers, i)], timers[i]),
          "timeout", i)

\* TickMs milliseconds pass
Tick ==
  /\ \A i \in 1..Len(timers) : timers[i].remaining > 0
  /\ navAge < KEY_NAV_DELAY \/ timers # <<>>
  /\ Step([World EXCEPT
            !.navAge = Min(navAge + TickMs, KEY_NAV_DELAY),
            !.timers = [i \in 1..Len(timers) |->
                          [timers[i] EXCEPT !.remaining = @ - TickMs]]],
          "tick", 0)

\* a click outside the overlay; the listener returns at once unless the
\* overlay is visible
ClickOutside ==
  /\ isOverlayVisible(World)
  /\ Step(handleClickOutside(World), "click", 0)

\* the page is hidden; modelled while the overlay is visible, since hiding a
\* hidden overlay changes nothing
VisibilityChange ==
  /\ isOverlayVisible(World)
  /\ Step(handleVisibilityChange(World, TRUE), "visibilitychange", 0)

\* the window is resized; the listener does nothing unless the overlay is
\* visible, and nothing that the model keeps once it is a popover
Resize ==
  /\ isOverlayVisible(World) /\ ~popoverOpen
  /\ Step(handleResize(World), "resize", 0)

(***************************************************************************)
(* Scenario: mentions typed while the user cache is empty, so that every   *)
(* mention keystroke waits for the data provider                           *)
(***************************************************************************)
KeysProvider == {"@", "j", "Backspace", "Escape"}

InitProvider == InitProgram /\ cachedUsers = <<>> /\ fn = NoCall /\ InitEnv

NextProvider ==
  \/ \E key \in KeysProvider : KeyDown(key)
  \/ KeyUp
  \/ \E i \in 1..Len(pending) : ResumeOnKeyUp(i)
  \/ ClickOutside

SpecProvider == InitProvider /\ [][NextProvider]_vars

(***************************************************************************)
(* The matcher functions applied to drawn inputs                           *)
(***************************************************************************)
ScanCalls ==
  { [name |-> "scanForTriggers", text |-> t, pos |-> p, done |-> FALSE,
     mentionQuery |-> NoMatch, commandInfo |-> NoMatch] :
      t \in ScanTexts, p \in 0..MaxScanLen }

FilterCalls ==
  { [name |-> "filterUsers", users |-> us, query |-> q, githubUsernames |-> g,
     done |-> FALSE, result |-> <<>>] :
      us \in CandidateLists, q \in Queries, g \in HostLists }

\* commands named "cJ<d>" and "ck<d>" in turn: all of them hold a c, every
\* other one a j in upper case
DrawnCommands ==
  [i \in 1..MaxCmds |->
     [command     |-> <<"c", IF i % 2 = 1 THEN "J" ELSE "k", DigitSeq[(i % 10) + 1]>>,
      description |-> <<"d">>]]

CommandLists == { SubSeq(DrawnCommands, 1, n) : n \in 0..MaxCmds }

CommandQueries == { <<>>, <<"c">>, <<"C">>, <<"j">>, <<"j", "1">>, <<"z">> }

CommandCalls ==
  { [name |-> "filterCommands", commands |-> cs, query |-> q,
     done |-> FALSE, result |-> <<>>] :
      cs \in CommandLists, q \in CommandQueries }

InitFn ==
  /\ InitProgram
  /\ InitEnv
  /\ cachedUsers = <<>>
  /\ \/ fn \in { c \in ScanCalls : c.pos <= Len(c.text) }
     \/ fn \in FilterCalls
     \/ fn \in CommandCalls

\* onKeyUp, lines 449-452: both scans of the same text and cursor
ScanForTriggers ==
  /\ fn.name = "scanForTriggers"
  /\ ~fn.done
  /\ fn' = [fn EXCEPT !.done = TRUE,
                      !.mentionQuery = scanForTrigger(fn.text, fn.pos),
                      !.commandInfo  = scanForCommand(fn.text, fn.pos)]
  /\ UNCHANGED <<progVars, envVars>>

FilterUsers ==
  /\ fn.name = "filterUsers"
  /\ ~fn.done
  /\ fn' = [fn EXCEPT !.done = TRUE,
                      !.result = filterUsers(fn.users, fn.query, fn.githubUsernames)]
  /\ UNCHANGED <<progVars, envVars>>

FilterCommands ==
  /\ fn.name = "filterCommands"
  /\ ~fn.done
  /\ fn' = [fn EXCEPT !.done = TRUE,
                      !.result = filterCommands(fn.commands, fn.query)]
  /\ UNCHANGED <<progVars, envVars>>

NextFn == ScanForTriggers \/ FilterUsers \/ FilterCommands

SpecFn == InitFn /\ [][NextFn]_vars

Scanned  == fn.name = "scanForTriggers" /\ fn.done
Filtered == fn.name = "filterUsers" /\ fn.done

(***************************************************************************)
(* Trigger detection (claim C5)                                            *)
(***************************************************************************)
Whitespace == {" "}

\* number of characters of the longest suffix of sl taken from class
RECURSIVE RunLength(_, _)
RunLength(sl, class) ==
  IF sl = <<>> THEN 0
  ELSE IF sl[Len(sl)] \in class THEN 1 + RunLength(SubSeq(sl, 1, Len(sl) - 1), class)
  ELSE 0

Before(text, pos) == SubSeq(text, 1, pos)

\* the whitespace-free run of the text that ends at the cursor
TokenRun(text, pos) ==
  LET sl == Before(text, pos)
      n  == RunLength(sl, ScanChars \ Whitespace)
  IN  SubSeq(sl, Len(sl) - n + 1, Len(sl))

\* the run of word characters that ends at the cursor is preceded by trigger
OpensAtCursor(text, pos, trigger) ==
  LET sl == Before(text, pos)
      n  == RunLength(sl, WordChars)
  IN  n < Len(sl) /\ sl[Len(sl) - n] = trigger

WordRun(text, pos) ==
  LET sl == Before(text, pos)
  IN  SubSeq(sl, Len(sl) - RunLength(sl, WordChars) + 1, Len(sl))

\* C5 as the specification words it: a trigger is detected iff the
\* whitespace-free run ending at the cursor contains '@' or '!'
C5_TriggerIffTokenRunHasTrigger ==
  Scanned =>
    ( (fn.mentionQuery.matched \/ fn.commandInfo.matched)
        <=> (\E i \in 1..Len(TokenRun(fn.text, fn.pos)) :
               TokenRun(fn.text, fn.pos)[i] \in {"@", "!"}) )

\* C5: scanForTrigger (scanForCommand) finds a trigger iff the run of word
\* characters [A-Za-z0-9_-] ending at the cursor is immediately preceded by
\* '@' ('!'); the query is that run, so the trigger is the nearest one before
\* the cursor and no whitespace lies between it and the cursor
C5_TriggerIffWordRunOpens ==
  Scanned =>
    /\ fn.mentionQuery.matched <=> OpensAtCursor(fn.text, fn.pos, "@")
    /\ fn.commandInfo.matched  <=> OpensAtCursor(fn.text, fn.pos, "!")
    /\ fn.mentionQuery.matched => fn.mentionQuery.query = WordRun(fn.text, fn.pos)
    /\ fn.commandInfo.matched  => fn.commandInfo.query = WordRun(fn.text, fn.pos)
    /\ \A r \in {fn.mentionQuery, fn.commandInfo} :
         r.matched => \A i \in 1..Len(r.query) : r.query[i] \notin {"@", "!", " "}

\* the trigger is found before a query that ends in a hyphen
C5_Witness ==
  /\ Scanned
  /\ fn.text = <<"@", "a", "-">>
  /\ fn.pos = 3
  /\ fn.mentionQuery = [matched |-> TRUE, query |-> <<"a", "-">>]

(***************************************************************************)
(* Candidate filtering (claims C8, C9, C10)                                *)
(***************************************************************************)
\* C8: with h host suggestions filterUsers returns at most
\* max(0, min(4, 7 - h)) items, none when h >= 7, and exactly 2 of ten
\* matching candidates when h = 5
C8_ItemBudget ==
  Filtered =>
    LET h == Len(fn.githubUsernames)
    IN  /\ Len(fn.result) <= Max(0, Min(4, 7 - h))
        /\ (h >= 7) => fn.result = <<>>
        /\ (h = 5 /\ fn.users = TenUsers /\ fn.query = <<"j">>) => Len(fn.result) = 2

\* the host page's names are excluded whatever their letter case
C9_Suggested(u, githubUsernames) ==
  \E i \in 1..Len(githubUsernames) :
     /\ Len(githubUsernames[i]) = Len(u.username)
     /\ \A k \in 1..Len(u.username) :
          ToLowerChar(githubUsernames[i][k]) = ToLowerChar(u.username[k])

C9_Contains(str, q) ==
  \E i \in 1..(Len(str) - Len(q) + 1) :
     \A k \in 1..Len(q) : ToLowerChar(str[i + k - 1]) = ToLowerChar(q[k])

C9_Eligible(u) ==
  /\ C9_Contains(u.username, fn.query) \/ C9_Contains(u.name, fn.query)
  /\ ~C9_Suggested(u, fn.githubUsernames)

\* C9: for a non-empty query every user returned contains the query, letter
\* case aside, in its username or its name and is not one the host page
\* suggests, and the result is a prefix of the eligible candidates in order
C9_MatchesAndExcludes ==
  (Filtered /\ fn.query # <<>>) =>
    LET eligible == SelectSeq(fn.users, C9_Eligible)
    IN  /\ \A i \in 1..Len(fn.result) : C9_Eligible(fn.result[i])
        /\ Len(fn.result) <= Len(eligible)
        /\ fn.result = SubSeq(eligible, 1, Len(fn.result))

\* a candidate found by its name only is returned and one the host page
\* lists in another letter case is left out
C9_Witness ==
  /\ Filtered
  /\ fn.users = <<UserJo, UserK>>
  /\ fn.query = <<"j">>
  /\ fn.githubUsernames = << <<"j","O">> >>
  /\ fn.result = <<UserK>>

\* C10: for the empty query filterUsers returns the empty list
C10_EmptyQueryNoItems ==
  (Filtered /\ fn.query = <<>>) => fn.result = <<>>

\* the empty query met candidates the host page does not suggest
C10_Witness ==
  /\ Filtered
  /\ fn.query = <<>>
  /\ fn.users = <<UserJo, UserK>>
  /\ fn.githubUsernames = <<>>
  /\ fn.result = <<>>

(***************************************************************************)
(* Command filtering (claim C11)                                           *)
(***************************************************************************)
CommandsFiltered == fn.name = "filterCommands" /\ fn.done

C11_Matches(cmd) == C9_Contains(cmd.command, fn.query)

\* C11: for the empty query filterCommands returns the first min(10, n)
\* commands in order; for another query it returns, in order, the first at
\* most 10 commands whose name contains the query, letter case aside, and
\* no other command
C11_CommandFilter ==
  CommandsFiltered =>
    LET expected == IF fn.query = <<>> THEN fn.commands
                    ELSE SelectSeq(fn.commands, C11_Matches)
    IN  fn.result = SubSeq(expected, 1, Min(10, Len(expected)))

\* six of twelve commands hold the query in another letter case
C11_Witness ==
  /\ CommandsFiltered
  /\ fn.query = <<"j">>
  /\ Len(fn.commands) = 12
  /\ Len(fn.result) = 6
  /\ fn.result[2].command = <<"c", "J", "3">>

(***************************************************************************)
(* Scenario: the overlay API of src/utils/dom.js called in any order, and  *)
(* the pointer over the items                                              *)
(***************************************************************************)
\* the lists handed to showOverlay: no array, arrays of the first 0..MaxShow
\* users, and an array of two other users
ShowArgs ==
  {NotAnArray, JsArray(SubSeq(TenUsers, 7, 8))}
    \cup { JsArray(SubSeq(TenUsers, 1, n)) : n \in 0..MaxShow }

Anchors == {"none", "ta"}

KeysDom == {"ArrowUp", "ArrowDown", "Enter", "Escape", "a", "Tab"}

\* the state once dom.js is loaded: no overlay element yet
InitDom ==
  /\ overlay = FALSE
  /\ display = "none"
  /\ popoverOpen = FALSE
  /\ overlayItems = <<>>
  /\ selectedIndex = 0
  /\ currentSelectedIndex = 0
  /\ position = "none"
  /\ lastGoodPosition = "null"
  /\ navAge = KEY_NAV_DELAY
  /\ activeInput = "none"
  /\ mentionStartPos = NullPos
  /\ settings = Settings0
  /\ cachedUsers = <<>>
  /\ isInitialized = FALSE
  /\ scanInterval = FALSE
  /\ page = <<>>
  /\ focus = "body"
  /\ value = <<>>
  /\ selectionStart = 0
  /\ keyHeld = "none"
  /\ pending = <<>>
  /\ timers = <<>>
  /\ last = [op |-> "init", arg |-> 0, inputs |-> 0, calls |-> {}]
  /\ fn = NoCall /\ InitEnv

CreateOverlay == Step(createOverlay(World), "createOverlay", 0)

\* a call of showOverlay(users, onSelect, activeInput); last keeps the
\* arguments and the index that was selected before the call
ShowOverlay ==
  \E users \in ShowArgs, input \in Anchors :
     LET w == showOverlay(World, users, "insertMention", input)
     IN  /\ Becomes(w)
         /\ last' = [op |-> "showOverlay", arg |-> 0, inputs |-> 0, calls |-> w.calls,
                     users |-> users, input |-> input, selectedBefore |-> selectedIndex]
         /\ UNCHANGED <<fn, envVars>>

HideOverlay == Step(hideOverlay(World), "hideOverlay", 0)

UpdateOverlayPosition ==
  \E input \in Anchors :
     Step(updateOverlayPosition(World, input), "updateOverlayPosition", 0)

RemoveOverlay == Step(removeOverlay(World), "removeOverlay", 0)

\* a call of handleKeyNavigation(e); last keeps e.key and the value returned
HandleKeyNavigation ==
  \E key \in KeysDom :
     LET r == handleKeyNavigation(World, key)
     IN  /\ Becomes(r.w)
         /\ last' = [op |-> "handleKeyNavigation", arg |-> 0, inputs |-> 0,
                     calls |-> IF r.w.prevented THEN r.w.calls \cup {"preventDefault"}
                               ELSE r.w.calls,
                     key |-> key, ret |-> r.ret]
         /\ UNCHANGED <<fn, envVars>>

NextDom ==
  \/ CreateOverlay
  \/ ShowOverlay
  \/ HideOverlay
  \/ UpdateOverlayPosition
  \/ RemoveOverlay
  \/ HandleKeyNavigation
  \/ \E index \in 0..3 : MouseEnter(index)
  \/ Tick

SpecDom == InitDom /\ [][NextDom]_vars

(***************************************************************************)
(* Overlay invariants (claims C3 and C4)                                   *)
(***************************************************************************)
InRange(index) == 0 <= index /\ index < Len(overlayItems)

\* C3: whenever the item list is non-empty the selected index lies in
\* 0..items.length-1, and updateSelection resets an index outside this range
\* to 0
C3_SelectedIndexInRange ==
  /\ overlayItems # <<>> => InRange(selectedIndex)
  /\ \A k \in (0 - 1)..(MaxShow + 1) :
       LET healed == updateSelection([World EXCEPT !.selectedIndex = k]).selectedIndex
       IN  healed = IF InRange(k) THEN k ELSE 0

\* ArrowUp on the first of several items has wrapped to the last one
C3_Witness ==
  /\ last.op = "handleKeyNavigation"
  /\ Len(overlayItems) = 4
  /\ selectedIndex = 3
  /\ navAge = 0

\* C4: a visible overlay (isOverlayVisible) has at least one item
C4_VisibleHasItems ==
  isOverlayVisible(World) => overlayItems # <<>>

(***************************************************************************)
(* Selection by keys (claims C12..C14, C18)                                *)
(***************************************************************************)
\* handleKeyNavigation gets past its first return
NavigationOpen == overlay /\ isOverlayVisible(World) /\ overlayItems # <<>>

\* the step is handleKeyNavigation({key}) on an open overlay
KeyStep(key) ==
  /\ NavigationOpen
  /\ last'.op = "handleKeyNavigation"
  /\ last'.key = key

\* the state after k calls of handleKeyNavigation({key}), each made once the
\* debounce window of the one before has passed
RECURSIVE C12_Presses(_, _, _)
C12_Presses(w, key, k) ==
  IF k = 0 THEN w
  ELSE C12_Presses(handleKeyNavigation([w EXCEPT !.navAge = KEY_NAV_DELAY], key).w,
                   key, k - 1)

\* C12: with n items, ArrowDown outside the debounce window moves the
\* selection from i to (i + 1) mod n and ArrowUp to (i - 1) mod n, so that
\* n-1 is followed by 0 and 0 by n-1, and n such steps of either key return
\* the selection to where it started
C12_SelectionCyclic ==
  /\ [](NavigationOpen =>
          LET n == Len(overlayItems)
          IN  /\ C12_Presses(World, "ArrowDown", n).selectedIndex = selectedIndex
              /\ C12_Presses(World, "ArrowUp", n).selectedIndex = selectedIndex
              /\ \A k \in 1..(n - 1) :
                    /\ C12_Presses(World, "ArrowDown", k).selectedIndex # selectedIndex
                    /\ C12_Presses(World, "ArrowUp", k).selectedIndex # selectedIndex)
  /\ [][ /\ KeyStep("ArrowDown") /\ navAge = KEY_NAV_DELAY
            => selectedIndex' = IF selectedIndex = Len(overlayItems) - 1 THEN 0
                                ELSE selectedIndex + 1
         /\ KeyStep("ArrowUp") /\ navAge = KEY_NAV_DELAY
            => selectedIndex' = IF selectedIndex = 0 THEN Len(overlayItems) - 1
                                ELSE selectedIndex - 1 ]_vars

\* ArrowDown on the last of four items has wrapped to the first one
C12_Witness ==
  /\ last.op = "handleKeyNavigation"
  /\ last.key = "ArrowDown"
  /\ Len(overlayItems) = 4
  /\ selectedIndex = 0
  /\ navAge = 0

\* the arrow keys
Arrows == {"ArrowUp", "ArrowDown"}

\* the delays, shorter than KEY_NAV_DELAY and at most left, that can lie
\* between two key events
C13_Delays(left) ==
  { d \in { i * TickMs : i \in 0..((KEY_NAV_DELAY \div TickMs) - 1) } : d <= left }

\* the numbers of times the selection can change in k further ArrowDown
\* events that follow one another within left milliseconds
RECURSIVE C13_Advances(_, _, _)
C13_Advances(w, k, left) ==
  IF k = 0 THEN {0}
  ELSE UNION {
         LET aged == [w EXCEPT !.navAge = Min(w.navAge + d, KEY_NAV_DELAY)]
             r    == handleKeyNavigation(aged, "ArrowDown").w
         IN  { c + (IF r.selectedIndex # w.selectedIndex THEN 1 ELSE 0) :
                 c \in C13_Advances(r, k - 1, left - d) } :
         d \in C13_Delays(left) }

\* what can happen between two key events while the overlay is shown:
\* nothing, a showOverlay call, or the pointer enters an item
C13_Between(w) ==
  {w}
    \cup { showOverlay(w, users, "insertMention", "ta") : users \in ShowArgs }
    \cup { mouseenter(w, index) : index \in 0..(Len(w.overlayItems) - 1) }

\* the arrow key e.key is consumed by the call that led from w0 to r without a
\* change of the selection
C13_Swallowed(w0, r) ==
  /\ r.w.selectedIndex = w0.selectedIndex
  /\ r.ret = NavTrue
  /\ r.w.prevented

\* C13 as stated: no arrow key delivered within 200 ms of an arrow key that
\* changed the selection changes selectedIndex, and each is consumed,
\* whatever was called in between
C13_DebounceWhateverBetween ==
  NavigationOpen =>
    \A key1 \in Arrows, key2 \in Arrows :
      LET w1 == handleKeyNavigation(World, key1).w
      IN  w1.selectedIndex # selectedIndex =>
            \A w2 \in C13_Between(w1) :
               C13_Swallowed(w2, handleKeyNavigation([w2 EXCEPT !.prevented = FALSE], key2))

\* C13, amended: while the overlay shows the same list (no showOverlay, which
\* resets the debounce clock, and no hideOverlay since), no arrow key
\* delivered within 200 ms of an arrow key that changed the selection changes
\* selectedIndex, and each is consumed: true is returned and the default
\* action prevented; five ArrowDown events within 200 ms change the
\* selection at most once
C13_Debounce ==
  /\ [](NavigationOpen =>
          /\ \A c \in C13_Advances(World, 5, KEY_NAV_DELAY - TickMs) : c <= 1
          /\ \A key1 \in Arrows, key2 \in Arrows :
               LET w1 == handleKeyNavigation(World, key1).w
               IN  w1.selectedIndex # selectedIndex =>
                     \A w2 \in {w1} \cup { mouseenter(w1, index) :
                                             index \in 0..(Len(overlayItems) - 1) },
                        d \in C13_Delays(KEY_NAV_DELAY) :
                        C13_Swallowed(w2,
                          handleKeyNavigation([w2 EXCEPT !.prevented = FALSE,
                                                         !.navAge = w2.navAge + d], key2)))
  /\ [][ \A key \in Arrows :
           KeyStep(key) /\ navAge < KEY_NAV_DELAY
             => /\ selectedIndex' = selectedIndex
                /\ last'.ret = NavTrue
                /\ "preventDefault" \in last'.calls ]_vars

\* an ArrowDown 50 ms after the arrow key that moved the selection from 0 to
\* 1 has been consumed and has left the selection at 1
C13_Witness ==
  /\ last.op = "handleKeyNavigation"
  /\ last.key = "ArrowDown"
  /\ last.ret = NavTrue
  /\ "preventDefault" \in last.calls
  /\ Len(overlayItems) = 3
  /\ selectedIndex = 1
  /\ navAge = TickMs

\* C14: Enter on a visible overlay with items returns exactly the item at
\* selectedIndex, which is the item an arrow key or the pointer highlighted
\* last, and so does getSelectedItem; with no items Enter is not handled and
\* getSelectedItem returns no item
C14_CommitReturnsHighlighted ==
  /\ [](/\ overlayItems = <<>> =>
             /\ getSelectedItem(World) = NavFalse
             /\ handleKeyNavigation(World, "Enter").ret = NavFalse
        /\ overlayItems # <<>> =>
             getSelectedItem(World) = NavItem(overlayItems[selectedIndex + 1].userData))
  /\ [][ /\ KeyStep("Enter") =>
              /\ last'.ret = NavItem(overlayItems[selectedIndex + 1].userData)
              /\ last'.ret = getSelectedItem(World)
         /\ last'.op = "mouseenter" => selectedIndex' = last'.arg
         /\ ~NavigationOpen /\ last'.op = "handleKeyNavigation"
              => last'.ret = NavFalse ]_vars

\* Enter has returned the third item, which is highlighted
C14_Witness ==
  /\ last.op = "handleKeyNavigation"
  /\ last.key = "Enter"
  /\ selectedIndex = 2
  /\ last.ret = NavItem(TenUsers[3])
  /\ getSelectedItem(World) = last.ret

\* the keys handleKeyNavigation has a case for
NavigationKeys == {"ArrowUp", "ArrowDown", "Enter", "Escape"}

\* the call returned false, prevented nothing and changed nothing of the
\* overlay: visibility, items, both indices and the debounce timestamp
C18_Ignored ==
  /\ last'.ret.kind = "false"
  /\ "preventDefault" \notin last'.calls
  /\ UNCHANGED <<overlay, display, popoverOpen, overlayItems,
                 selectedIndex, currentSelectedIndex, navAge>>

\* C18: handleKeyNavigation does not consume a key other than ArrowUp,
\* ArrowDown, Enter and Escape and leaves the overlay state as it is; while
\* the overlay is hidden or holds no items this is so for every key
C18_OtherKeysIgnored ==
  [][ last'.op = "handleKeyNavigation" /\ (last'.key \notin NavigationKeys \/ ~NavigationOpen)
        => C18_Ignored ]_vars

\* a letter has been passed over while the third item is highlighted inside
\* the debounce window
C18_Witness ==
  /\ last.op = "handleKeyNavigation"
  /\ last.key = "a"
  /\ last.ret = NavFalse
  /\ NavigationOpen
  /\ selectedIndex = 2
  /\ navAge = TickMs

\* Escape has been passed over while the overlay is hidden
C18_WitnessHidden ==
  /\ last.op = "handleKeyNavigation"
  /\ last.key = "Escape"
  /\ last.ret = NavFalse
  /\ overlay /\ ~isOverlayVisible(World)

(***************************************************************************)
(* Showing and hiding (claims C15..C17)                                    *)
(***************************************************************************)
\* the step is showOverlay(users, ...) with a non-empty array
ShowStep ==
  /\ last'.op = "showOverlay"
  /\ last'.users.isArray
  /\ last'.users.elems # <<>>

\* the items of a new list: its first four users, none of the list before
C15_Replaced ==
  /\ Len(overlayItems') = Min(4, Len(last'.users.elems))
  /\ \A i \in 1..Len(overlayItems') :
       overlayItems'[i].userData = last'.users.elems[i]
  /\ selectedIndex' = 0
  /\ currentSelectedIndex' = 0
  /\ navAge' = KEY_NAV_DELAY

\* C15 as stated: every showOverlay call with a non-empty list replaces the
\* items, selects index 0 and resets the debounce clock
C15_EveryShowResets == [][ShowStep => C15_Replaced]_vars

\* C15, amended: while the overlay element exists, every showOverlay call
\* with a non-empty list replaces the items, selects index 0 and resets the
\* debounce clock, whatever was selected before
C15_ShowResets == [][ShowStep /\ overlay => C15_Replaced]_vars

\* two users have replaced a longer list whose third item was selected
C15_Witness ==
  /\ last.op = "showOverlay"
  /\ last.selectedBefore = 2
  /\ last.users = JsArray(SubSeq(TenUsers, 7, 8))
  /\ Len(overlayItems) = 2
  /\ overlayItems[1].userData = TenUsers[7]
  /\ selectedIndex = 0
  /\ navAge = KEY_NAV_DELAY

\* what C16 requires of the state hideOverlay leaves
C16_Cleared ==
  /\ ~(overlay' /\ (display' # "none" \/ popoverOpen'))
  /\ overlayItems' = <<>>
  /\ selectedIndex' = 0

\* C16 as stated: after every hideOverlay call the overlay is not visible,
\* the item list is empty and selectedIndex is 0
C16_EveryHideClears == [][last'.op = "hideOverlay" => C16_Cleared]_vars

\* C16, amended: after a hideOverlay call made while the overlay element
\* exists the overlay is not visible, the item list is empty and selectedIndex
\* is 0; the index hideOverlay leaves in currentSelectedIndex never meets a
\* list of items, since wherever items are held the two indices agree
C16_HideClears ==
  /\ [](overlayItems # <<>> => currentSelectedIndex = selectedIndex)
  /\ [][last'.op = "hideOverlay" /\ overlay => C16_Cleared]_vars

\* hideOverlay has hidden a list whose third item was highlighted
C16_Witness ==
  /\ last.op = "hideOverlay"
  /\ overlay
  /\ currentSelectedIndex = 2
  /\ selectedIndex = 0
  /\ overlayItems = <<>>
  /\ ~isOverlayVisible(World)

\* the state w without the record of the calls that led to it
C17_State(w) == [w EXCEPT !.calls = {}]

\* C17: hideOverlay called a second time, hideOverlay called without an
\* overlay element, and updateOverlayPosition called with a null anchor call
\* no DOM method that could throw (hidePopover on a closed popover,
\* getBoundingClientRect on null); after them the overlay is not visible and
\* the state is the state a single hideOverlay leaves
C17_HideIdempotent ==
  LET once   == hideOverlay(World)
      twice  == hideOverlay(C17_State(once))
      moved  == updateOverlayPosition(C17_State(once), "none")
  IN  /\ ~isOverlayVisible(once)
      /\ C17_State(twice) = C17_State(once)
      /\ twice.calls = {"hideOverlay"}
      /\ moved = C17_State(once)
      /\ updateOverlayPosition(World, "none") = World
      /\ popoverOpen <=> "hidePopover" \in once.calls
      /\ ~overlay => once = Called(World, "hideOverlay")

\* hideOverlay has been called before any overlay element was created
C17_Witness ==
  /\ last.op = "hideOverlay"
  /\ ~overlay
  /\ overlayItems = <<>>
  /\ display = "none"
  /\ C17_State(hideOverlay(World)) = World

(***************************************************************************)
(* Scenario: mentions typed and committed with the user cache filled       *)
(***************************************************************************)
KeysMention == {"@", "j", "ArrowLeft", "ArrowDown", "Enter"}

InitMention == InitProgram /\ cachedUsers = ProviderUsers /\ fn = NoCall /\ InitEnv

NextMention ==
  \/ \E key \in KeysMention : KeyDown(key)
  \/ KeyUp
  \/ \E index \in 0..1 : MouseEnter(index)
  \/ \E index \in 0..1 : MouseDown(index)
  \/ \E i \in 1..Len(timers) : Timeout(i)
  \/ Tick

SpecMention == InitMention /\ [][NextMention]_vars

(***************************************************************************)
(* Committing a mention (claim C6)                                         *)
(***************************************************************************)
\* a mention trigger is open at the cursor and mentionStartPos is the
\* position of its '@'
MentionOpen ==
  LET m == scanForTrigger(value, selectionStart)
  IN  m.matched /\ mentionStartPos = selectionStart - Len(m.query) - 1

\* the username this step commits: that of the item whose mousedown set the
\* timer, or that of the selected item when Enter commits
CommittedUsername ==
  IF last'.op = "timeout"
  THEN timers[last'.arg].item.username
  ELSE overlayItems[selectedIndex + 1].userData.username

\* C6: a mention committed for username u while the trigger opened at
\* s = mentionStartPos is open at the cursor c turns the text into
\* text[0..s) + "@u " + text[c..), puts the cursor behind the inserted space
\* and dispatches one input event
C6_MentionSplice ==
  [][ ("insertMention" \in last'.calls /\ MentionOpen)
      => LET s == mentionStartPos
             c == selectionStart
             u == CommittedUsername
         IN  /\ value' = SubSeq(value, 1, s) \o <<"@">> \o u \o <<" ">>
                           \o SubSeq(value, c + 1, Len(value))
             /\ selectionStart' = s + Len(u) + 2
             /\ last'.inputs = 1 ]_vars

\* "j@j" with the cursor moved before the last j, committed with Jo: text
\* stands before and after the span that was replaced
C6_Witness ==
  /\ "insertMention" \in last.calls
  /\ last.inputs = 1
  /\ value = <<"j", "@", "J", "o", " ", "j">>
  /\ selectionStart = 5

(***************************************************************************)
(* Scenario: commands typed and committed                                  *)
(***************************************************************************)
\* "!" lists every command; the pointer selects one and Enter commits it
KeysCommand == {"!", "ArrowLeft", "Enter"}

InitCommand == InitProgram /\ cachedUsers = ProviderUsers /\ fn = NoCall /\ InitEnv

NextCommand ==
  \/ \E key \in KeysCommand : KeyDown(key)
  \/ KeyUp
  \/ \E index \in 0..2 : MouseEnter(index)
  \/ \E i \in 1..Len(timers) : Timeout(i)
  \/ \E i \in 1..Len(pending) : ResumeExecuteCommand(i)

SpecCommand == InitCommand /\ [][NextCommand]_vars

(***************************************************************************)
(* Committing a command (claim C7)                                         *)
(***************************************************************************)
\* what the commands of Settings0 and lgtmrand expand to
ExpectedResults ==
  { <<"k", " ", "1", ":", "1">>, <<"$", "{", "1", "/", "1">>,
    <<"!", "[", "]", "(", "u", ")">> }

Placeholders == {Chars_timestamp, Chars_date, Chars_time}

\* C7: a command with a non-empty result r committed while a '!' trigger
\* starting at s is open at the cursor c turns the text into
\* text[0..s) + r + text[c..), puts the cursor at s + length(r) and
\* dispatches an input event; r holds none of the placeholders
C7_CommandSplice ==
  [][ ("insertResult" \in last'.calls /\ scanForCommand(value, selectionStart).matched)
      => LET c == selectionStart
             s == c - Len(scanForCommand(value, c).query) - 1
         IN  \E r \in ExpectedResults :
               /\ value' = SubSeq(value, 1, s) \o r \o SubSeq(value, c + 1, Len(value))
               /\ selectionStart' = s + Len(r)
               /\ last'.inputs = 1
               /\ \A pat \in Placeholders : ~includes(r, pat) ]_vars

\* "!!!" with the cursor moved before the last '!', committed with the
\* command j: its result stands where the second '!' was, between the text
\* before the trigger and the text behind the cursor
C7_Witness ==
  /\ "insertResult" \in last.calls
  /\ last.inputs = 1
  /\ value = <<"!", "k", " ", "1", ":", "1", "!">>
  /\ selectionStart = 6

(***************************************************************************)
(* Scenario: mentions and commands typed, with and without candidates,    *)
(* while the user cache is empty at first                                  *)
(***************************************************************************)
KeysWatcher == {"@", "!", "j", "z", "Backspace", "Escape"}

InitWatcher == InitProgram /\ cachedUsers = <<>> /\ fn = NoCall /\ InitEnv

\* the user types on while the users are being loaded, and deletes only once
\* no handler is suspended
NextWatcher ==
  \/ \E key \in KeysWatcher : KeyDown(key) /\ (key = "Backspace" => pending = <<>>)
  \/ KeyUp
  \/ \E i \in 1..Len(pending) : ResumeOnKeyUp(i)

SpecWatcher == InitWatcher /\ [][NextWatcher]_vars

(***************************************************************************)
(* Hiding when nothing matches (claim C19)                                 *)
(***************************************************************************)
\* the step leads to the state w
LeadsTo(w) == Becomes(w)

\* the overlay is not visible after the step
HiddenAfter == ~(overlay' /\ (display' # "none" \/ popoverOpen'))

\* no trigger was detected, or the matcher returns nothing for the detected one
C19_NoCandidates(w, users, mentionQuery, commandInfo) ==
  LET noCommands == filterCommands(getAvailableCommands(w), commandInfo.query) = <<>>
  IN  \/ ~mentionQuery.matched /\ ~commandInfo.matched
      \/ /\ mentionQuery.matched
         /\ filterUsers(users, mentionQuery.query, w.github) = <<>>
         /\ commandInfo.matched => noCommands
      \/ ~mentionQuery.matched /\ commandInfo.matched /\ noCommands

TriggerOpen ==
  \/ scanForTrigger(value, selectionStart).matched
  \/ scanForCommand(value, selectionStart).matched

\* no key is held, no handler is suspended and no timer is waiting
Settled == keyHeld = "none" /\ pending = <<>> /\ timers = <<>>

\* C20: whenever the overlay is visible (and every handler has run to its
\* end), the text and the cursor of the active input yield a trigger; the
\* overlay is gone once the cursor has left the span of the trigger, also by
\* a key that changes no text
C20_VisibleImpliesTrigger ==
  Settled /\ isOverlayVisible(World) => TriggerOpen

(***************************************************************************)
(* Scenario: the periodic scan, the focus moving between the inputs of the *)
(* page, and the hide timers of the blur listeners                         *)
(***************************************************************************)
\* pages: one textarea; two inputs that share an id; an input without an id
PageLayouts ==
  { << Element("ta", "new_comment_field") >>,
    << Element("ta", "new_comment_field"), Element("tb", "new_comment_field") >>,
    << Element("ta", "new_comment_field"), Element("tc", "") >> }

Names(layout) == { layout[i].name : i \in 1..Len(layout) }

\* the content script is loaded into a page: nothing is initialized
InitScan ==
  /\ overlay = FALSE
  /\ display = "none"
  /\ popoverOpen = FALSE
  /\ overlayItems = <<>>
  /\ selectedIndex = 0
  /\ currentSelectedIndex = 0
  /\ position = "none"
  /\ lastGoodPosition = "null"
  /\ navAge = KEY_NAV_DELAY
  /\ activeInput = "none"
  /\ mentionStartPos = NullPos
  /\ settings = NoSettings
  /\ cachedUsers = <<>>
  /\ isInitialized = FALSE
  /\ scanInterval = FALSE
  /\ page \in PageLayouts
  /\ focus \in Names(page) \cup {"body"}
  /\ value = <<>>
  /\ selectionStart = 0
  /\ keyHeld = "none"
  /\ pending = <<>>
  /\ timers = <<>>
  /\ last = [op |-> "init", arg |-> 0, inputs |-> 0, calls |-> {}]
  /\ fn = NoCall /\ InitEnv

Stored == [settings |-> Settings0, cachedUsers |-> ProviderUsers]

Initialize ==
  /\ ~isInitialized
  /\ Step(initialize(World, Stored), "initialize", 0)

\* the interval timer fires and scanInputs runs
ScanInputs ==
  /\ scanInterval
  /\ LET w == scanInputs(World)
     IN  /\ \A i \in 1..Len(w.page) : w.page[i].blur <= MaxListeners
         /\ Step(w, "scanInputs", 0)

\* the user moves the focus to target (an input, or away from all of them);
\* the input that had it receives blur.  last keeps the input that lost the
\* focus and the number of timers its listeners have set
MoveFocus(target) ==
  /\ target \in Names(page) \cup {"body"}
  /\ target # focus
  /\ LET w == IF focus = "body" THEN World ELSE blur(World, focus)
     IN  /\ Len(w.timers) <= MaxHideTimers
         /\ Becomes([w EXCEPT !.focus = target])
         /\ last' = [op |-> "blur", arg |-> 0, inputs |-> 0, calls |-> w.calls,
                     from |-> focus, timersSet |-> Len(w.timers) - Len(timers)]
         /\ UNCHANGED <<fn, envVars>>

NextScan ==
  \/ Initialize
  \/ ScanInputs
  \/ \E target \in {"ta", "tb", "tc", "body"} : MoveFocus(target)
  \/ \E i \in 1..Len(timers) : Timeout(i)
  \/ Tick

SpecScan == InitScan /\ [][NextScan]_vars

(***************************************************************************)
(* Listeners and the active input (claims C21, C22)                        *)
(***************************************************************************)
ElementNamed(name) == page[CHOOSE k \in 1..Len(page) : page[k].name = name]

\* C21: however many scans have met an input, its blur event runs the blur
\* handler exactly once, so that one blur sets exactly one hide timer (and
\* its keyup and input events run onKeyUp and onInput once)
C21_OneListenerPerEvent ==
  [][ (last'.op = "blur" /\ focus # "body" /\ ElementNamed(focus).enhanced = "true")
        => last'.timersSet = 1 ]_vars

\* C22: activeInput is none or the input that has the focus
C22_ActiveInputHasFocus ==
  activeInput # "none" => activeInput = focus

(***************************************************************************)
(* Pointer-down on an item (claim C23)                                     *)
(***************************************************************************)
\* the timers that will invoke the commit callback
SelectTimers(ts) == { i \in 1..Len(ts) : ts[i].kind = "onSelect" }

KeysBlur == {"@", "j"}

InitBlur == InitProgram /\ cachedUsers = ProviderUsers /\ fn = NoCall /\ InitEnv

\* keys reach the listeners of the textarea while it has the focus, and the
\* focus moves between the textarea and the rest of the page
NextBlur ==
  \/ \E key \in KeysBlur : focus = "ta" /\ KeyDown(key)
  \/ focus = "ta" /\ KeyUp
  \/ \E target \in {"ta", "body"} : keyHeld = "none" /\ MoveFocus(target)
  \/ ScanInputs
  \/ \E index \in 0..1 : MouseDown(index)
  \/ \E i \in 1..Len(timers) : Timeout(i)
  \/ Tick

SpecBlur == InitBlur /\ [][NextBlur]_vars

(***************************************************************************)
(* The grace delay of blur (claim C24)                                     *)
(***************************************************************************)
HideTimers(ts) == { i \in 1..Len(ts) : ts[i].kind = "hideOverlay" }

\* C24: the blur of the active input leaves the overlay as it is and sets a
\* timer of 100 ms; the overlay is hidden when that timer runs; a
\* pointer-down on an item while the timer waits still hands the item to the
\* commit callback, which inserts the mention also after the overlay has
\* been hidden by the timer
C24_BlurGrace ==
  /\ [][ last'.op = "blur" =>
           /\ <<display, popoverOpen, overlayItems, selectedIndex>>'
                = <<display, popoverOpen, overlayItems, selectedIndex>>
           /\ last'.from = activeInput =>
                /\ last'.timersSet >= 1
                /\ \A i \in (Len(timers) + 1)..Len(timers') :
                     timers'[i] = [kind |-> "hideOverlay", remaining |-> 100] ]_vars
  /\ [][ (last'.op = "timeout" /\ timers[last'.arg].kind = "hideOverlay")
           => ~isOverlayVisible(World)' ]_vars
  /\ [][ (last'.op = "mousedown" /\ HideTimers(timers) # {})
           => /\ Cardinality(SelectTimers(timers')) = Cardinality(SelectTimers(timers)) + 1
              /\ timers'[Len(timers')].item = overlayItems[last'.arg + 1].userData ]_vars
  /\ [][ (last'.op = "timeout" /\ timers[last'.arg].kind = "onSelect" /\ MentionOpen)
           => /\ "insertMention" \in last'.calls
              /\ value' = SubSeq(value, 1, mentionStartPos) \o <<"@">>
                            \o timers[last'.arg].item.username \o <<" ">>
                            \o SubSeq(value, selectionStart + 1, Len(value)) ]_vars

\* the pointer went down on an item after the blur and before its timer
\* ran; the timer has hidden the overlay and the mention was inserted after
C24_Witness ==
  /\ last.op = "timeout"
  /\ "insertMention" \in last.calls
  /\ focus = "body"
  /\ timers = <<>>
  /\ value = <<"@", "k", " ">>

(***************************************************************************)
(* The data sources of getUsersForSuggestions                              *)
(***************************************************************************)
\* an entry of a JSON array as the validation sees it
Entry(user) ==
  [object |-> TRUE, usernameType |-> "string", nameType |-> "string",
   avatarType |-> "undefined", username |-> user.username, name |-> user.name]

\* user && typeof user === 'object' && typeof user.username === 'string' &&
\* typeof user.name === 'string' &&
\* (user.avatar === undefined || typeof user.avatar === 'string')
ValidEntry(e) ==
  /\ e.object
  /\ e.usernameType = "string"
  /\ e.nameType = "string"
  /\ e.avatarType \in {"undefined", "string"}

\* the filter as it would be if it kept every entry
validUsers_KeepAll(entries) ==
  [i \in 1..Len(entries) |-> [username |-> entries[i].username, name |-> entries[i].name]]

\* data.filter(user => ...), as a list of users
validUsers(entries) ==
  LET kept == SelectSeq(entries, ValidEntry)
  IN  [i \in 1..Len(kept) |-> [username |-> kept[i].username, name |-> kept[i].name]]

Thrown == [threw |-> TRUE, users |-> <<>>]
Returned(users) == [threw |-> FALSE, users |-> users]

\* fetchUsersFromEndpoint(endpointUrl), given the response of the endpoint
fetchUsersFromEndpoint(response) ==
  IF ~response.ok THEN Thrown
  ELSE IF response.payload.kind # "array" THEN Thrown
  ELSE LET valid == validUsers(response.payload.entries)
       IN  IF Len(valid) = 0 THEN Thrown ELSE Returned(valid)

\* loadUsersFromEndpoint(): the value of cachedUsers when it has returned
loadUsersFromEndpoint(cached, response) ==
  LET fetched == fetchUsersFromEndpoint(response)
  IN  IF fetched.threw THEN cached ELSE fetched.users

\* getUsersForSuggestions() with an empty cache, given what the storage and
\* the endpoint answer
getUsersForSuggestions(source) ==
  IF source.storage = "throws" THEN Thrown
  ELSE IF source.dataSource = "direct" /\ source.payload.kind = "array"
          /\ Len(source.payload.entries) > 0
          /\ Len(validUsers(source.payload.entries)) > 0
  THEN Returned(validUsers(source.payload.entries))
  ELSE IF source.dataSource = "endpoint" /\ source.expired
  THEN Returned(loadUsersFromEndpoint(<<>>, source))
  ELSE Returned(<<>>)

\* the rest of onKeyUp once getUsersForSuggestions has settled on source
resumeFromSource(w, req, source) ==
  LET got == getUsersForSuggestions(source)
  IN  IF got.threw THEN hideOverlay(w)       \* catch (error) of onKeyUp
      ELSE resumeOnKeyUp(w, req, got.users)

(***************************************************************************)
(* Scenario: mentions typed while the cache is empty and the data source   *)
(* answers with well-formed or malformed data                              *)
(***************************************************************************)
\* null
NullEntry ==
  [object |-> FALSE, usernameType |-> "undefined", nameType |-> "undefined",
   avatarType |-> "undefined", username |-> <<>>, name |-> <<>>]
\* { username: 7, name: "x" }
NumberEntry == [Entry(UserJoe) EXCEPT !.usernameType = "number"]

\* { username: "j ", name: "" }: strings, so the entry passes the validation
UserSpaced == [username |-> <<"j", " ">>, name |-> <<>>]

\* arrays without entries, with valid entries only, with invalid entries
\* only, and with both
EntryLists ==
  { <<>>, << Entry(UserJo) >>, << Entry(UserJo), Entry(UserK) >>,
    << NullEntry >>, << NumberEntry >>, << NullEntry, NumberEntry >>,
    << NullEntry, Entry(UserK) >>, << Entry(UserJo), NumberEntry >>,
    << Entry(UserSpaced) >> }

Payloads ==
  { [kind |-> "unparsable", entries |-> <<>>],
    [kind |-> "object", entries |-> <<>>] }
  \cup { [kind |-> "array", entries |-> es] : es \in EntryLists }

Sources ==
  { [storage |-> "ok", dataSource |-> "direct", payload |-> p,
     ok |-> TRUE, expired |-> TRUE] : p \in Payloads }
  \cup { [storage |-> "ok", dataSource |-> "endpoint", payload |-> p,
          ok |-> TRUE, expired |-> TRUE] : p \in Payloads }
  \cup { [storage |-> "ok", dataSource |-> "endpoint",
          payload |-> [kind |-> "array", entries |-> << Entry(UserJo) >>],
          ok |-> ok, expired |-> ~ok] : ok \in BOOLEAN }
  \cup { [storage |-> s, dataSource |-> "none",
          payload |-> [kind |-> "unparsable", entries |-> <<>>],
          ok |-> FALSE, expired |-> TRUE] : s \in {"ok", "throws"} }

KeysSource == {"@", "j"}

InitSource == InitProgram /\ cachedUsers = <<>> /\ fn = NoCall /\ InitEnv

\* getUsersForSuggestions settles; last keeps what the source answered
ResumeFromSource(i) ==
  /\ i \in 1..Len(pending)
  /\ pending[i].kind = "users"
  /\ \E source \in Sources, github \in HostStates :
       LET w == resumeFromSource([WorldWith(github) EXCEPT !.pending = Without(pending, i)],
                                 pending[i], source)
       IN  /\ Becomes(w)
           /\ last' = [op |-> "resumeFromSource", arg |-> i, inputs |-> w.inputEvents,
                       calls |-> w.calls, source |-> source]
           /\ UNCHANGED <<fn, envVars>>

NextSource ==
  \/ \E key \in KeysSource : KeyDown(key)
  \/ KeyUp
  \/ \E i \in 1..Len(pending) : ResumeFromSource(i)

SpecSource == InitSource /\ [][NextSource]_vars

(***************************************************************************)
(* Failing data sources (claim C25)                                        *)
(***************************************************************************)
\* the source rejects, fails, or answers something other than an array of
\* valid entries
Malformed(source) ==
  \/ source.storage = "throws"
  \/ source.dataSource = "endpoint" /\ ~source.ok
  \/ source.payload.kind # "array"
  \/ \E i \in 1..Len(source.payload.entries) : ~ValidEntry(source.payload.entries[i])

\* the source yields no entry that passes the validation
NothingValid(source) ==
  \/ source.storage = "throws"
  \/ source.dataSource = "endpoint" /\ ~source.ok
  \/ source.payload.kind # "array"
  \/ \A i \in 1..Len(source.payload.entries) : ~ValidEntry(source.payload.entries[i])

\* C25 as stated: whenever the source rejects or its data is malformed, the
\* overlay is hidden when onKeyUp completes
C25_MalformedMeansHidden ==
  [][ (last'.op = "resumeFromSource" /\ Malformed(last'.source))
        => ~isOverlayVisible(World)' ]_vars

\* C25: when the source rejects, fails, or yields no valid entry, the
\* overlay is hidden when onKeyUp completes and nothing is cached; an array
\* in which only some entries are invalid yields its valid entries, and only
\* those are cached and shown
C25_FailureMeansHidden ==
  /\ [][ (last'.op = "resumeFromSource" /\ NothingValid(last'.source))
           => /\ ~isOverlayVisible(World)'
              /\ cachedUsers' = cachedUsers ]_vars
  /\ [][ (last'.op = "resumeFromSource" /\ ~NothingValid(last'.source))
           => \A k \in 1..Len(overlayItems') :
                \E i \in 1..Len(last'.source.payload.entries) :
                   LET e == last'.source.payload.entries[i]
                   IN  /\ ValidEntry(e)
                       /\ overlayItems'[k].userData.username = e.username ]_vars

\* the keyup of 'j' in "@j" was answered by a source that threw, while the
\* overlay was showing the candidates of an earlier answer
C25_Witness ==
  /\ last.op = "resumeFromSource"
  /\ last.source.storage = "throws"
  /\ "hidePopover" \in last.calls
  /\ ~isOverlayVisible(World)

\* an unparsable direct JSON text left the overlay hidden
C25_WitnessUnparsable ==
  /\ last.op = "resumeFromSource"
  /\ last.source.dataSource = "direct"
  /\ last.source.payload.kind = "unparsable"
  /\ value = <<"@", "j">>
  /\ ~isOverlayVisible(World)

(***************************************************************************)
(* Scenario: the overlay API called while DOM methods throw                *)
(***************************************************************************)
DomMethods == {"showPopover", "hidePopover", "scrollIntoView"}

FaultyArgs == {NotAnArray} \cup { JsArray(SubSeq(TenUsers, 1, n)) : n \in 0..2 }

FaultyKeys == {"ArrowDown", "ArrowUp", "Enter", "Escape", "a"}

\* the step ends in the state w of a call made with these arguments while
\* the methods of throws throw
FaultyStep(w, op, throws, users, input, key, ret) ==
  /\ Becomes(w)
  /\ last' = [op |-> op, arg |-> 0, inputs |-> 0, calls |-> w.calls,
              throws |-> throws, escaped |-> w.escaped,
              users |-> users, input |-> input, key |-> key, ret |-> ret]
  /\ UNCHANGED <<fn, envVars>>

Throwing(throws) == [World EXCEPT !.throws = throws]

FaultyShowOverlay ==
  \E throws \in SUBSET DomMethods, users \in FaultyArgs, input \in Anchors :
     FaultyStep(showOverlay(Throwing(throws), users, "insertMention", input),
                "showOverlay", throws, users, input, "none", NavFalse)

FaultyHideOverlay ==
  \E throws \in SUBSET DomMethods :
     FaultyStep(hideOverlay(Throwing(throws)),
                "hideOverlay", throws, NotAnArray, "none", "none", NavFalse)

FaultyUpdateOverlayPosition ==
  \E throws \in SUBSET DomMethods, input \in Anchors :
     FaultyStep(updateOverlayPosition(Throwing(throws), input),
                "updateOverlayPosition", throws, NotAnArray, input, "none", NavFalse)

FaultyHandleKeyNavigation ==
  \E throws \in SUBSET DomMethods, key \in FaultyKeys :
     LET r == handleKeyNavigation(Throwing(throws), key)
     IN  FaultyStep(r.w, "handleKeyNavigation", throws, NotAnArray, "none", key, r.ret)

NextFaulty ==
  \/ CreateOverlay
  \/ FaultyShowOverlay
  \/ FaultyHideOverlay
  \/ FaultyUpdateOverlayPosition
  \/ FaultyHandleKeyNavigation
  \/ Tick

SpecFaulty == InitDom /\ [][NextFaulty]_vars

(***************************************************************************)
(* Throwing DOM methods (claim C26)                                        *)
(***************************************************************************)
FaultyOps == {"showOverlay", "hideOverlay", "updateOverlayPosition", "handleKeyNavigation"}

\* the state of the renderer apart from the popover
RendererOf(w) ==
  <<w.overlay, w.display, w.overlayItems, w.selectedIndex, w.currentSelectedIndex,
    w.navAge>>

\* C26: whichever of showPopover, hidePopover and scrollIntoView throw, no
\* exception leaves showOverlay, hideOverlay, updateOverlayPosition or
\* handleKeyNavigation, and the overlay ends in the state that was asked
\* for: the call returns what it returns and leaves the renderer as it
\* leaves it when nothing throws, the overlay is visible after showOverlay
\* was given users and hidden after hideOverlay
C26_DomErrorsContained ==
  /\ [](last.op \in FaultyOps /\ "throws" \in DOMAIN last => ~last.escaped)
  /\ [][ (last'.op = "showOverlay" /\ "throws" \in DOMAIN last')
           => /\ RendererOf(World)' =
                   RendererOf(showOverlay(World, last'.users, "insertMention", last'.input))
              /\ (overlay /\ last'.users.isArray /\ Len(last'.users.elems) > 0)
                   => /\ isOverlayVisible(World)'
                      /\ overlayItems' = ItemElements(last'.users.elems, "insertMention") ]_vars
  /\ [][ (last'.op = "hideOverlay" /\ "throws" \in DOMAIN last')
           => /\ ~isOverlayVisible(World)'
              /\ RendererOf(World)' = RendererOf(hideOverlay(World))
              /\ ~popoverOpen' ]_vars
  /\ [][ (last'.op = "updateOverlayPosition" /\ "throws" \in DOMAIN last')
           => /\ RendererOf(World)' = RendererOf(World)
              /\ (overlay /\ last'.input # "none" /\ "showPopover" \notin last'.throws)
                   => popoverOpen' ]_vars
  /\ [][ (last'.op = "handleKeyNavigation" /\ "throws" \in DOMAIN last')
           => LET r == handleKeyNavigation(World, last'.key)
              IN  /\ last'.ret = r.ret
                  /\ RendererOf(World)' = RendererOf(r.w)
                  /\ last'.key = "Escape" /\ r.ret = NavTrue
                       => ~isOverlayVisible(World)' ]_vars

\* showOverlay was given two users while showPopover threw: the overlay is
\* visible with the two items although the popover is not open
C26_Witness ==
  /\ last.op = "showOverlay"
  /\ "throws" \in DOMAIN last
  /\ "showPopover" \in last.throws
  /\ "showPopover" \in last.calls
  /\ Len(overlayItems) = 2
  /\ isOverlayVisible(World)
  /\ ~popoverOpen

\* hideOverlay closed an open popover while hidePopover threw
C26_WitnessHide ==
  /\ last.op = "hideOverlay"
  /\ "throws" \in DOMAIN last
  /\ "hidePopover" \in last.throws
  /\ "hidePopover" \in last.calls
  /\ ~isOverlayVisible(World)

\* an arrow key moved the selection while scrollIntoView threw
C26_WitnessScroll ==
  /\ last.op = "handleKeyNavigation"
  /\ "throws" \in DOMAIN last
  /\ "scrollIntoView" \in last.throws
  /\ "scrollIntoView" \in last.calls
  /\ selectedIndex = 1

(***************************************************************************)
(* Scenario: initialize and cleanup on a page with one textarea, and the   *)
(* events that go on arriving                                              *)
(***************************************************************************)
KeysLife == {"@", "j"}

InitLife == InitScan /\ page = << Element("ta", "new_comment_field") >>

InitializeLife ==
  /\ ~isInitialized
  /\ LET w == initialize(World, Stored)
     IN  /\ \A i \in 1..Len(w.page) : w.page[i].blur <= MaxListeners
         /\ Step(w, "initialize", 0)

\* cleanup() is called; last tells whether the call before was cleanup too
\* and whether the script was initialized
Cleanup ==
  LET w == cleanup(World)
  IN  /\ Becomes(w)
      /\ last' = [op |-> "cleanup", arg |-> 0, inputs |-> 0, calls |-> w.calls,
                  escaped |-> w.escaped, again |-> last.op = "cleanup",
                  wasInitialized |-> isInitialized, hadOverlay |-> overlay]
      /\ UNCHANGED <<fn, envVars>>

\* a key goes down in the focused textarea: the keydown listener of the
\* document runs
KeyDownLife(key) == focus = "ta" /\ KeyDown(key)

\* the key is released: onKeyUp runs if the textarea has the listener
KeyUpLife ==
  /\ focus = "ta"
  /\ IF ElementNamed("ta").keyup
     THEN KeyUp
     ELSE keyHeld # "none" /\ Step([World EXCEPT !.keyHeld = "none"], "keyup", 0)

NextLife ==
  \/ InitializeLife
  \/ Cleanup
  \/ ScanInputs
  \/ \E key \in KeysLife : KeyDownLife(key)
  \/ KeyUpLife
  \/ \E target \in {"ta", "body"} : keyHeld = "none" /\ MoveFocus(target)
  \/ ClickOutside
  \/ \E i \in 1..Len(timers) : Timeout(i)
  \/ Tick

SpecLife == InitLife /\ [][NextLife]_vars

(***************************************************************************)
(* Teardown (claims C27, C28)                                              *)
(***************************************************************************)
\* C27: cleanup never throws and ends without overlay element, with
\* activeInput and mentionStartPos none and isInitialized false, whether or
\* not the script was initialized; a second call changes nothing
C27_CleanupIdempotent ==
  [][ last'.op = "cleanup" =>
        /\ ~last'.escaped
        /\ ~overlay'
        /\ activeInput' = "none"
        /\ mentionStartPos' = NullPos
        /\ ~isInitialized'
        /\ LeadsTo(cleanup(cleanup(World)))
        /\ last'.again => UNCHANGED <<domVars, scriptVars, pageVars, loopVars>> ]_vars

\* cleanup was called twice in a row
C27_Witness ==
  /\ last.op = "cleanup"
  /\ last.again
  /\ ~last.hadOverlay
  /\ value = <<"@", "j">>
  /\ ~overlay /\ activeInput = "none" /\ mentionStartPos = NullPos /\ ~isInitialized

\* cleanup was called before initialize
C27_WitnessUninitialized ==
  /\ last.op = "cleanup"
  /\ ~last.wasInitialized
  /\ ~scanInterval
  /\ ~overlay /\ activeInput = "none" /\ mentionStartPos = NullPos /\ ~isInitialized

\* cleanup removed a visible overlay
C27_WitnessVisible ==
  /\ last.op = "cleanup"
  /\ last.wasInitialized /\ last.hadOverlay
  /\ overlayItems # <<>>
  /\ ~overlay

\* the state of the core: the variables of the content script and of the
\* renderer
Core ==
  <<activeInput, mentionStartPos, isInitialized, settings, cachedUsers,
    overlay, display, popoverOpen, overlayItems, selectedIndex, currentSelectedIndex>>

\* C28: once cleanup has run after an initialize, no event changes the
\* state of the core until initialize is called again
C28_DetachedAfterCleanup ==
  [][ (scanInterval /\ ~isInitialized /\ last'.op \notin {"initialize", "cleanup"})
        => Core' = Core ]_vars

(***************************************************************************)
(* Scenario: the overlay positioned while GitHub's own overlay comes and   *)
(* goes                                                                    *)
(***************************************************************************)
\* a call of updateOverlayPosition(activeInput); last keeps the argument and
\* whether the page shows GitHub's overlay
PositionOverlay ==
  \E hostOverlay \in BOOLEAN, input \in Anchors :
     LET w == updateOverlayPosition([World EXCEPT !.hostOverlay = hostOverlay], input)
     IN  /\ Becomes(w)
         /\ last' = [op |-> "updateOverlayPosition", arg |-> 0, inputs |-> 0,
                     calls |-> w.calls, hostOverlay |-> hostOverlay, input |-> input]
         /\ UNCHANGED <<fn, envVars>>

NextPosition ==
  \/ CreateOverlay
  \/ ShowOverlay
  \/ HideOverlay
  \/ RemoveOverlay
  \/ PositionOverlay
  \/ \E index \in 0..3 : MouseEnter(index)

SpecPosition == InitDom /\ [][NextPosition]_vars

(***************************************************************************)
(* Positioning modes (claim C29)                                           *)
(***************************************************************************)
\* C29: updateOverlayPosition places the overlay below GitHub's overlay when
\* there is one and caches that position, else at the cached position when
\* there is one, else at the bounding box of the input; removeOverlay clears
\* the cached position
C29_PositionPriority ==
  /\ [][ (last'.op = "updateOverlayPosition" /\ overlay) =>
           IF last'.hostOverlay
           THEN position' = "host" /\ lastGoodPosition' = "host"
           ELSE IF lastGoodPosition # "null"
           THEN position' = "cached"
           ELSE last'.input # "none" => position' = "input" ]_vars
  /\ [][ last'.op = "removeOverlay" => lastGoodPosition' = "null" ]_vars

(***************************************************************************)
(* Names of the candidates (claim C30)                                     *)
(***************************************************************************)
\* /^[A-Za-z0-9_-]+$/
Token(text) == Len(text) > 0 /\ \A i \in 1..Len(text) : text[i] \in WordChars

\* C30: the username and the name of every item of the overlay and of every
\* cached user are non-empty and consist of letters, digits, '-' and '_'
C30_ItemsAreTokens ==
  /\ \A i \in 1..Len(overlayItems) :
        /\ Token(overlayItems[i].userData.username)
        /\ Token(overlayItems[i].userData.name)
  /\ \A i \in 1..Len(cachedUsers) :
        /\ Token(cachedUsers[i].username)
        /\ Token(cachedUsers[i].name)

\* the weaker statement about the usernames alone
C30_UsernamesAreTokens ==
  /\ \A i \in 1..Len(overlayItems) : Token(overlayItems[i].userData.username)
  /\ \A i \in 1..Len(cachedUsers) : Token(cachedUsers[i].username)

(***************************************************************************)
(* GitHub API requests of src/utils/api.js                                 *)
(***************************************************************************)
\* return githubApiRequests < 60
RateLimit == 60

\* the module state of api.js as one value; allowed is what the last
\* checkGitHubRateLimit() returned
Api ==
  [githubApiRequests |-> githubApiRequests, githubApiResetTime |-> githubApiResetTime,
   avatarCalls |-> avatarCalls, requestLog |-> requestLog, allowed |-> FALSE]

\* checkGitHubRateLimit() at time t
checkGitHubRateLimit(a, t) ==
  [a EXCEPT !.githubApiRequests = IF t > a.githubApiResetTime THEN 0 ELSE @,
            !.githubApiResetTime = IF t > @ THEN t + HOUR_MS ELSE @,
            !.allowed = (IF t > a.githubApiResetTime THEN 0 ELSE a.githubApiRequests)
                          < RateLimit]

\* the request log with one more request at time t; requests of the same
\* instant share an entry
Logged(log, t) ==
  IF log # <<>> /\ log[Len(log)].at = t
  THEN [log EXCEPT ![Len(log)].n = @ + 1]
  ELSE Append(log, [at |-> t, n |-> 1])

\* fetchGitHubAvatar(username) up to its first suspension, the await of
\* checkGitHubRateLimit(): it goes on in a microtask when the check has
\* allowed it and returns null otherwise
startFetchGitHubAvatar(a, username, t) ==
  IF username = <<>> THEN a
  ELSE [checkGitHubRateLimit(a, t) EXCEPT
          !.avatarCalls.started =
             IF (IF t > a.githubApiResetTime THEN 0 ELSE a.githubApiRequests) < RateLimit
             THEN @ + 1 ELSE @]

\* the callback of users.map() for the next user
mapUser(a, t) ==
  [ (IF Head(a.avatarCalls.todo).avatar THEN a
     ELSE startFetchGitHubAvatar(a, Head(a.avatarCalls.todo).username, t))
    EXCEPT !.avatarCalls.todo = Tail(@) ]

\* fetchGitHubAvatar from its microtask to the await of the response:
\* fetchWithTimeout calls fetch()
issueAvatarRequest(a, t) ==
  [a EXCEPT !.avatarCalls.started = @ - 1,
            !.avatarCalls.awaiting = @ + 1,
            !.requestLog = Logged(@, t)]

\* fetchGitHubAvatar when its request has settled: incrementGitHubApiCounter()
\* runs for a response, not for a rejected fetch (network error, abort after
\* REQUEST_TIMEOUT)
resumeFetchGitHubAvatar(a, outcome) ==
  IF outcome = "rejected"
  THEN [a EXCEPT !.avatarCalls.awaiting = @ - 1]
  ELSE [a EXCEPT !.avatarCalls.awaiting = @ - 1, !.githubApiRequests = @ + 1]

\* the number of requests of a log
RECURSIVE Requests(_)
Requests(log) == IF log = <<>> THEN 0 ELSE log[1].n + Requests(Tail(log))

\* what fetchGitHubAvatar returns for the outcome of its request
AvatarOf(outcome) == IF outcome = "200" THEN "avatar_url" ELSE "null"

(***************************************************************************)
(* Scenario: user lists are enhanced with avatars while time passes        *)
(***************************************************************************)
\* most users without an avatar in one list
MaxAvatarless == 61
\* most requests issued at one instant
MaxLogged == 64
\* the clock stops after this many ticks
MaxTicks == 2

AvatarUser(username, avatar) == [username |-> username, avatar |-> avatar]

AvatarLists ==
  { [i \in 1..n |-> AvatarUser(<<"j">>, FALSE)] : n \in {1, MaxAvatarless} }
  \cup { << AvatarUser(<<"j">>, TRUE), AvatarUser(<<>>, FALSE), AvatarUser(<<"k">>, FALSE) >> }

Outcomes == {"200", "403", "404", "500", "rejected"}

InitApi == InitProgram /\ cachedUsers = <<>> /\ fn = NoCall /\ InitEnv

\* no call of enhanceUsersWithAvatars is between two awaits
Idle == avatarCalls.todo = <<>> /\ avatarCalls.started = 0

StepApi(a, op, arg) ==
  /\ githubApiRequests' = a.githubApiRequests
  /\ githubApiResetTime' = a.githubApiResetTime
  /\ avatarCalls' = a.avatarCalls
  /\ requestLog' = a.requestLog
  /\ last' = [op |-> op, arg |-> arg, inputs |-> 0, calls |-> {}]
  /\ UNCHANGED <<domVars, scriptVars, pageVars, loopVars, fn, endpointCall, now, storage>>

\* enhanceUsersWithAvatars(users) is called, when the requests of the call
\* before it have settled
EnhanceUsersWithAvatars ==
  /\ Idle
  /\ avatarCalls.awaiting = 0
  /\ \E users \in AvatarLists :
       /\ Requests(requestLog) + Len(users) <= MaxLogged
       /\ StepApi([Api EXCEPT !.avatarCalls.todo = users], "enhanceUsersWithAvatars", Len(users))

\* users.map(async ...) runs each callback up to its first await
MapUser ==
  /\ avatarCalls.todo # <<>>
  /\ StepApi(mapUser(Api, now), "mapUser", Len(avatarCalls.todo))

\* the microtasks of the started calls run before any other task
Microtask ==
  /\ avatarCalls.todo = <<>>
  /\ avatarCalls.started > 0
  /\ StepApi(issueAvatarRequest(Api, now), "issueAvatarRequest", avatarCalls.started)

AvatarResponse ==
  /\ Idle
  /\ avatarCalls.awaiting > 0
  /\ \E outcome \in Outcomes :
       StepApi(resumeFetchGitHubAvatar(Api, outcome), "resumeFetchGitHubAvatar",
               AvatarOf(outcome))

\* the requests of the log that a window of one hour ending at t can hold
Recent(log, t) == SelectSeq(log, LAMBDA e : e.at + HOUR_MS > t)

\* an hour passes; by then fetchWithTimeout has aborted every request that
\* got no response (REQUEST_TIMEOUT)
ClockTicks ==
  /\ Idle
  /\ avatarCalls.awaiting = 0
  /\ now < ClockStart + MaxTicks * ClockTick
  /\ now' = now + ClockTick
  /\ requestLog' = Recent(requestLog, now + ClockTick)
  /\ last' = [op |-> "clock", arg |-> 0, inputs |-> 0, calls |-> {}]
  /\ UNCHANGED <<domVars, scriptVars, pageVars, loopVars, fn, githubApiRequests,
                 githubApiResetTime, avatarCalls, endpointCall, storage>>

NextApi == EnhanceUsersWithAvatars \/ MapUser \/ Microtask \/ AvatarResponse \/ ClockTicks

SpecApi == InitApi /\ [][NextApi]_vars

(***************************************************************************)
(* The rate limit (claim C31)                                              *)
(***************************************************************************)
\* the requests issued in the window of one hour that starts at time t
InWindow(log, t) == Requests(SelectSeq(log, LAMBDA e : t <= e.at /\ e.at < t + HOUR_MS))

\* C31: within any window of one hour at most 60 requests are issued to the
\* GitHub API, also when enhanceUsersWithAvatars processes more than 60
\* users without an avatar at once
C31_RateLimitRespected ==
  \A i \in 1..Len(requestLog) : InWindow(requestLog, requestLog[i].at) <= RateLimit

(***************************************************************************)
(* Scenario: key presses, each a keydown, a time the key is held and a     *)
(* keyup                                                                   *)
(***************************************************************************)
KeysPress == {"@", "j", "ArrowDown", "ArrowUp"}

InitPress == InitProgram /\ cachedUsers = ProviderUsers /\ fn = NoCall /\ InitEnv

\* what the press in progress found at its keydown
PressOf(key) ==
  [key |-> key, before |-> selectedIndex, items |-> Len(overlayItems),
   open |-> isOverlayVisible(World), age |-> navAge, held |-> 0]

\* the keydown listener of the document runs; last keeps the press
PressKey(key) ==
  /\ keyHeld = "none"
  /\ LET w1 == handleEscapeKey(World, key)
         w2 == IF w1.prevented THEN w1 ELSE DefaultAction(w1, key)
     IN  /\ Len(w2.value) > Len(w1.value) => Len(w1.value) < MaxLen
         /\ Len(w2.pending) <= MaxPending
         /\ Becomes([w2 EXCEPT !.keyHeld = key])
         /\ last' = [op |-> "keydown", arg |-> 0, inputs |-> w2.inputEvents,
                     calls |-> w2.calls, press |-> PressOf(key)]
  /\ UNCHANGED <<fn, envVars>>

\* TickMs milliseconds pass while the key is held
HoldKey ==
  /\ keyHeld # "none"
  /\ last.press.held <= KEY_NAV_DELAY
  /\ Becomes([World EXCEPT !.navAge = Min(navAge + TickMs, KEY_NAV_DELAY)])
  /\ last' = [last EXCEPT !.op = "tick", !.press.held = @ + TickMs]
  /\ UNCHANGED <<fn, envVars>>

\* the key is released: the keyup listener of the textarea runs
ReleaseKey ==
  /\ keyHeld # "none"
  /\ \E github \in HostStates :
       LET w == onKeyUp(WorldWith(github), keyHeld)
       IN  /\ Len(w.pending) <= MaxPending
           /\ Becomes([w EXCEPT !.keyHeld = "none"])
           /\ last' = [op |-> "keyup", arg |-> 0, inputs |-> w.inputEvents,
                       calls |-> w.calls, press |-> last.press]
  /\ UNCHANGED <<fn, envVars>>

\* TickMs milliseconds pass while no key is held
Wait ==
  /\ keyHeld = "none"
  /\ navAge < KEY_NAV_DELAY
  /\ Becomes([World EXCEPT !.navAge = Min(navAge + TickMs, KEY_NAV_DELAY)])
  /\ last' = [op |-> "tick", arg |-> 0, inputs |-> 0, calls |-> {}]
  /\ UNCHANGED <<fn, envVars>>

NextPress ==
  \/ \E key \in KeysPress : PressKey(key)
  \/ HoldKey
  \/ ReleaseKey
  \/ Wait

SpecPress == InitPress /\ [][NextPress]_vars

(***************************************************************************)
(* One press, one move (claim C32)                                         *)
(***************************************************************************)
\* the index one arrow press leads to
MovedOnce(press) ==
  IF press.key = "ArrowDown" THEN NextIndex(press.before, press.items)
  ELSE PrevIndex(press.before, press.items)

\* the press in progress is an arrow press on an overlay that is visible
\* with several items, begun when the last move was KEY_NAV_DELAY ago or more
ArrowPress ==
  /\ keyHeld \in Arrows
  /\ "press" \in DOMAIN last
  /\ last.press.open
  /\ last.press.items > 1
  /\ last.press.age = KEY_NAV_DELAY

\* C32: one press of ArrowDown or ArrowUp, the keydown handled by
\* handleEscapeKey and the keyup by onKeyUp, moves the selection by exactly
\* one position, however long the key is held
C32_OnePressOneMove ==
  [][ ArrowPress /\ keyHeld' = "none" => selectedIndex' = MovedOnce(last.press) ]_vars

\* an arrow key is released less than KEY_NAV_DELAY after its keydown and the
\* selection is one position from where the press found it
C32_WitnessShort ==
  /\ last.op = "keyup"
  /\ last.press.key \in Arrows
  /\ last.press.open /\ last.press.items > 1 /\ last.press.age = KEY_NAV_DELAY
  /\ last.press.held < KEY_NAV_DELAY
  /\ selectedIndex = MovedOnce(last.press)

(***************************************************************************)
(* Scenario: one commit gesture on the command overlay, with keystrokes    *)
(* before and after it                                                     *)
(***************************************************************************)
\* longest text the user types to in this scenario
MaxCommitLen == 7

KeysCommit == {"!", "ArrowDown", "Enter"}

InitCommit == InitProgram /\ cachedUsers = ProviderUsers /\ fn = NoCall /\ InitEnv

\* the commit gestures made so far and the insertions (each dispatches one
\* input event) since the first of them
Gestures == IF "gestures" \in DOMAIN last THEN last.gestures ELSE 0
Inserted == IF "inserted" \in DOMAIN last THEN last.inserted ELSE 0
\* the keys pressed after the gesture
Later    == IF "later" \in DOMAIN last THEN last.later ELSE 0

StepCommit(w, op, arg, gesture) ==
  /\ Len(w.pending) <= Max(MaxPending, Len(pending))
  /\ Len(w.timers) <= Max(MaxTimers, Len(timers))
  /\ Becomes(w)
  /\ last' = [op |-> op, arg |-> arg, inputs |-> w.inputEvents, calls |-> w.calls,
              gestures |-> Gestures + (IF gesture THEN 1 ELSE 0),
              inserted |-> IF Gestures = 0 /\ ~gesture THEN 0
                           ELSE Inserted + w.inputEvents,
              later |-> IF Gestures > 0 /\ op = "keydown" THEN 1 ELSE Later]
  /\ UNCHANGED <<fn, envVars>>

\* a timer that is due runs before the next event of the keyboard or the
\* pointer is delivered
NoTimerDue == \A i \in 1..Len(timers) : timers[i].remaining > 0

\* a keydown; Enter is pressed once, on the visible overlay
KeyDownCommit(key) ==
  /\ keyHeld = "none"
  /\ NoTimerDue
  /\ key = "Enter" => Gestures = 0 /\ isOverlayVisible(World) /\ overlayItems # <<>>
  /\ LET w1 == handleEscapeKey(World, key)
         w2 == IF w1.prevented THEN w1 ELSE DefaultAction(w1, key)
     IN  /\ Len(w2.value) > Len(w1.value) => Len(w1.value) < MaxCommitLen
         /\ StepCommit([w2 EXCEPT !.keyHeld = key], "keydown", 0, key = "Enter")

KeyUpCommit ==
  /\ keyHeld # "none"
  /\ NoTimerDue
  /\ StepCommit([onKeyUp(World, keyHeld) EXCEPT !.keyHeld = "none"], "keyup", 0, FALSE)

\* one pointer-down on an item, if Enter has not been pressed
MouseDownCommit(index) ==
  /\ Gestures = 0
  /\ NoTimerDue
  /\ ItemShown(index)
  /\ StepCommit(mousedown(World, index), "mousedown", index, TRUE)

TimeoutCommit(i) ==
  /\ i \in 1..Len(timers)
  /\ timers[i].remaining = 0
  /\ \A j \in 1..(i - 1) : timers[j].remaining > 0
  /\ StepCommit(runTimer([World EXCEPT !.timers = Without(timers, i)], timers[i]),
                "timeout", i, FALSE)

TickCommit ==
  /\ timers # <<>>
  /\ \A i \in 1..Len(timers) : timers[i].remaining > 0
  /\ StepCommit([World EXCEPT
                   !.navAge = Min(navAge + TickMs, KEY_NAV_DELAY),
                   !.timers = [i \in 1..Len(timers) |->
                                 [timers[i] EXCEPT !.remaining = @ - TickMs]]],
                "tick", 0, FALSE)

\* the background script answers a suspended executeCommand
ResumeCommit(i) ==
  /\ i \in 1..Len(pending)
  /\ pending[i].kind = "lgtm"
  /\ StepCommit(resumeExecuteCommand([World EXCEPT !.pending = Without(pending, i)],
                                     pending[i]),
                "resumeExecuteCommand", i, FALSE)

NextCommit ==
  \/ \E key \in KeysCommit : KeyDownCommit(key)
  \/ KeyUpCommit
  \/ \E index \in 0..2 : MouseDownCommit(index)
  \/ \E i \in 1..Len(timers) : TimeoutCommit(i)
  \/ TickCommit
  \/ \E i \in 1..Len(pending) : ResumeCommit(i)

SpecCommit == InitCommit /\ [][NextCommit]_vars

(***************************************************************************)
(* One gesture, one insertion (claim C33)                                  *)
(***************************************************************************)
\* nothing of the gesture is left to run
Quiet == pending = <<>> /\ timers = <<>> /\ keyHeld = "none"

\* C33: one commit gesture (Enter keydown and keyup, or one pointer-down on
\* an item) inserts into the buffer exactly once, also when executeCommand
\* awaits the lgtmrand answer while the keyup and further keystrokes arrive
C33_OneGestureOneInsertion ==
  /\ Inserted <= 1
  /\ Gestures = 1 /\ Quiet => Inserted = 1

\* the statement for the gesture alone: no key is pressed after it
C33_GestureAlone == Later = 0 => C33_OneGestureOneInsertion

(***************************************************************************)
(* Scenario: Enter pressed behind command names that exist and that do not *)
(***************************************************************************)
KeysEnter == {"!", "j", "z", "Escape", "Enter"}

InitEnter == InitProgram /\ cachedUsers = ProviderUsers /\ fn = NoCall /\ InitEnv

NextEnter ==
  \/ \E key \in KeysEnter : KeyDown(key)
  \/ KeyUp
  \/ \E i \in 1..Len(timers) : Timeout(i)
  \/ \E i \in 1..Len(pending) : ResumeExecuteCommand(i)

SpecEnter == InitEnter /\ [][NextEnter]_vars

(***************************************************************************)
(* Enter behind an unknown command (claim C34)                             *)
(***************************************************************************)
\* the name is neither built-in nor a configured custom command
UnknownCommand(name) ==
  name # Chars_lgtmrand /\ ~HasCommand(settings.customCommands, name)

\* this step is the keydown of Enter while the overlay is not visible and
\* the text before the cursor ends in '!' or in '!name' for an unknown name
EnterBehindUnknown ==
  /\ keyHeld = "none"
  /\ keyHeld' = "Enter"
  /\ ~isOverlayVisible(World)
  /\ scanForCommand(value, selectionStart).matched
  /\ UnknownCommand(scanForCommand(value, selectionStart).query)

\* C34: the default action of an Enter keydown is prevented only if the
\* overlay consumed the key or a command expansion is then inserted; behind
\* '!' or an unknown '!name', with no overlay visible, Enter is left to the
\* host page and the extension leaves the buffer alone
C34_EnterLeftToHost ==
  [][ EnterBehindUnknown
        => /\ "preventDefault" \notin last'.calls
           /\ value' = InsertAt(value, selectionStart, "\n") ]_vars

\* the command scheduled by such a keydown has run and inserted nothing: the
\* text is as it was and holds no line break
C34_WitnessSwallowed ==
  /\ last.op = "timeout"
  /\ keyHeld = "Enter"
  /\ value = <<"!", "z">>
  /\ "insertResult" \notin last.calls

(***************************************************************************)
(* Scenario: four custom commands are configured beside the built-in one   *)
(***************************************************************************)
ManyCommands ==
  << [command |-> <<"j">>,     content |-> <<"k">>],
     [command |-> <<"j","j">>, content |-> <<"k","k">>],
     [command |-> <<"k">>,     content |-> <<"j">>],
     [command |-> <<"z">>,     content |-> <<"j","j">>] >>

KeysMany == {"!", "@", "j", "ArrowDown"}

InitMany ==
  /\ InitProgram /\ cachedUsers = ProviderUsers /\ fn = NoCall /\ InitEnv

\* the settings popup saves four custom commands and sends them to the
\* content script in a SETTINGS_UPDATED message
ConfigureMany ==
  /\ Len(settings.customCommands) < Len(ManyCommands)
  /\ value = <<>>
  /\ keyHeld = "none"
  /\ Step([World EXCEPT !.settings.customCommands = ManyCommands], "settings", 0)

NextMany ==
  \/ ConfigureMany
  \/ \E key \in KeysMany : KeyDown(key)
  \/ KeyUp
  \/ Tick

SpecMany == InitMany /\ [][NextMany]_vars

(***************************************************************************)
(* The overlay holds what the matcher returned (claim C35)                 *)
(***************************************************************************)
\* the lists the matcher can return for the trigger open at the cursor,
\* mentions before commands as onKeyUp orders them
MatcherResults ==
  LET mentionQuery == scanForTrigger(value, selectionStart)
      commandInfo  == scanForCommand(value, selectionStart)
      users        == IF mentionQuery.matched
                      THEN { filterUsers(cachedUsers, mentionQuery.query, github) :
                               github \in HostStates }
                      ELSE { <<>> }
  IN  { m \in users : Len(m) > 0 }
      \cup { commandItems(filterCommands(getAvailableCommands(World), commandInfo.query)) :
               x \in { m \in users : Len(m) = 0 /\ commandInfo.matched } }

UserDataOf(items) == [i \in 1..Len(items) |-> items[i].userData]

\* C35: every item the matcher returns for the open trigger is held by the
\* overlay after showOverlay, so that with an empty command query every
\* available command (up to 10) can be reached with the arrow keys
C35_OverlayHoldsMatches ==
  [][ last'.op = "keyup" /\ "showOverlay" \in last'.calls
        => UserDataOf(overlayItems') \in MatcherResults ]_vars

\* the statement for the lists of at most four items
C35_UpToFourHeld ==
  [][ last'.op = "keyup" /\ "showOverlay" \in last'.calls
        => \E m \in MatcherResults :
             UserDataOf(overlayItems') = slice0(m, 4) ]_vars

\* the last of the four items shown for '!' is highlighted while five
\* commands are available
C35_WitnessFifthUnreachable ==
  /\ Len(getAvailableCommands(World)) = 5
  /\ value = <<"!">>
  /\ Len(overlayItems) = 4
  /\ selectedIndex = 3

(***************************************************************************)
(* fetchUsersFromEndpoint with its retries (src/utils/api.js)              *)
(***************************************************************************)
MAX_RETRIES == 2

\* a plausible slip: the same delay before every retry
backoffDelay_Constant(attempt) == 1000

\* Math.pow(2, attempt) * 1000
backoffDelay(attempt) == (2 ^ attempt) * 1000

\* !endpointUrl || !isValidUrl(endpointUrl)
InvalidUrl(url) == url.empty \/ ~url.parses

\* the callback handed to retryWithBackoff, given how its request settles:
\* fetch rejects (network error, or abort after REQUEST_TIMEOUT), or the
\* response is validated
endpointAttempt(response) ==
  IF response.settled # "response"
  THEN [threw |-> TRUE, users |-> <<>>, error |-> response.settled]
  ELSE IF ~response.ok
  THEN [threw |-> TRUE, users |-> <<>>, error |-> "request failed"]
  ELSE IF response.payload.kind # "array"
  THEN [threw |-> TRUE, users |-> <<>>, error |-> "not an array"]
  ELSE IF Len(validUsers(response.payload.entries)) = 0
  THEN [threw |-> TRUE, users |-> <<>>, error |-> "no valid user"]
  ELSE [threw |-> FALSE, users |-> validUsers(response.payload.entries), error |-> "none"]

\* fn() of retryWithBackoff is called: fetchWithTimeout issues the request
startAttempt(c) == [c EXCEPT !.stage = "request", !.requests = @ + 1]

\* fetchUsersFromEndpoint(endpointUrl) up to its first await
callFetchUsersFromEndpoint(url) ==
  IF InvalidUrl(url)
  THEN [name |-> "fetchUsersFromEndpoint", url |-> url, attempt |-> 0, stage |-> "rejected",
        requests |-> 0, waited |-> <<>>, errors |-> <<>>, users |-> <<>>,
        error |-> "invalid url"]
  ELSE startAttempt(
       [name |-> "fetchUsersFromEndpoint", url |-> url, attempt |-> 0, stage |-> "none",
        requests |-> 0, waited |-> <<>>, errors |-> <<>>, users |-> <<>>,
        error |-> "none"])

\* retryWithBackoff when the attempt has settled
settleAttempt(c, response) ==
  IF ~endpointAttempt(response).threw
  THEN [c EXCEPT !.stage = "resolved", !.users = endpointAttempt(response).users]
  ELSE IF c.attempt = MAX_RETRIES
  THEN [c EXCEPT !.stage = "rejected",
                 !.errors = Append(@, [attempt |-> c.attempt,
                                        error |-> endpointAttempt(response).error]),
                 !.error = endpointAttempt(response).error]
  ELSE [c EXCEPT !.stage = "backoff",
                 !.errors = Append(@, [attempt |-> c.attempt,
                                        error |-> endpointAttempt(response).error])]

\* retryWithBackoff when the timer of the backoff has fired
afterBackoff(c) ==
  startAttempt([c EXCEPT !.waited = Append(@, backoffDelay(c.attempt)),
                         !.attempt = @ + 1])

(***************************************************************************)
(* Scenario: calls of fetchUsersFromEndpoint against an endpoint that      *)
(* answers, fails or does not answer                                       *)
(***************************************************************************)
Urls == { [empty |-> TRUE,  parses |-> FALSE],
          [empty |-> FALSE, parses |-> FALSE],
          [empty |-> FALSE, parses |-> TRUE] }

Responses ==
  { [settled |-> "response", ok |-> TRUE, payload |-> p] : p \in Payloads \ {[kind |-> "unparsable", entries |-> <<>>]} }
  \cup { [settled |-> "response", ok |-> FALSE, payload |-> [kind |-> "object", entries |-> <<>>]],
         [settled |-> "network error", ok |-> FALSE, payload |-> [kind |-> "object", entries |-> <<>>]],
         [settled |-> "aborted", ok |-> FALSE, payload |-> [kind |-> "object", entries |-> <<>>]] }

InitRetry == InitProgram /\ cachedUsers = <<>> /\ fn = NoCall /\ InitEnv

StepRetry(c, op, response) ==
  /\ endpointCall' = c
  /\ last' = [op |-> op, arg |-> 0, inputs |-> 0, calls |-> {}, response |-> response]
  /\ UNCHANGED <<domVars, scriptVars, pageVars, loopVars, fn, githubApiRequests,
                 githubApiResetTime, avatarCalls, requestLog, now, storage>>

InProgress == endpointCall.name # "none" /\ endpointCall.stage \in {"request", "backoff"}
Settled36  == endpointCall.name # "none" /\ endpointCall.stage \in {"resolved", "rejected"}

CallFetchUsersFromEndpoint ==
  /\ ~InProgress
  /\ \E url \in Urls : StepRetry(callFetchUsersFromEndpoint(url), "fetchUsersFromEndpoint", "none")

AttemptSettles ==
  /\ InProgress
  /\ endpointCall.stage = "request"
  /\ \E response \in Responses :
       StepRetry(settleAttempt(endpointCall, response), "settleAttempt", response)

BackoffElapses ==
  /\ InProgress
  /\ endpointCall.stage = "backoff"
  /\ StepRetry(afterBackoff(endpointCall), "afterBackoff", "none")

NextRetry == CallFetchUsersFromEndpoint \/ AttemptSettles \/ BackoffElapses

\* every request settles (fetchWithTimeout aborts it after REQUEST_TIMEOUT)
\* and every timer fires
SpecRetry ==
  InitRetry /\ [][NextRetry]_vars /\ WF_vars(AttemptSettles) /\ WF_vars(BackoffElapses)

(***************************************************************************)
(* Bounded retries (claim C36)                                             *)
(***************************************************************************)
IsPrefix(s, t) == Len(s) <= Len(t) /\ s = SubSeq(t, 1, Len(s))

RetryBounded ==
  endpointCall.name # "none" =>
    /\ endpointCall.requests <= MAX_RETRIES + 1
    /\ IsPrefix(endpointCall.waited, <<1000, 2000>>)
    /\ Len(endpointCall.waited) = Max(endpointCall.requests - 1, 0)
    /\ InvalidUrl(endpointCall.url)
         => endpointCall.stage = "rejected" /\ endpointCall.requests = 0
    /\ endpointCall.stage = "resolved"
         => /\ Len(endpointCall.errors) = endpointCall.requests - 1
            /\ last.op = "settleAttempt"
            /\ endpointCall.users = validUsers(last.response.payload.entries)
            /\ Len(endpointCall.users) > 0
    /\ endpointCall.stage = "rejected" /\ ~InvalidUrl(endpointCall.url)
         => /\ endpointCall.requests = MAX_RETRIES + 1
            /\ Len(endpointCall.errors) = MAX_RETRIES + 1
            /\ endpointCall.error = endpointCall.errors[MAX_RETRIES + 1].error
            /\ endpointCall.errors[MAX_RETRIES + 1].attempt = MAX_RETRIES

\* C36: fetchUsersFromEndpoint issues at most MAX_RETRIES + 1 = 3 requests,
\* waits 1 s before the second and 2 s before the third, resolves with the
\* validated users of the first successful attempt, rejects with the error
\* of the third attempt when all fail, rejects without a request for an
\* empty or malformed URL, and terminates when each request terminates
C36_BoundedRetries ==
  /\ []RetryBounded
  /\ [][ Settled36 => last'.op = "fetchUsersFromEndpoint" ]_vars
  /\ (InProgress ~> Settled36)

\* the third attempt has failed after waits of 1 s and 2 s and the call is
\* rejected with its error, which differs from that of the first attempt
C36_Witness ==
  /\ endpointCall.name # "none"
  /\ endpointCall.stage = "rejected"
  /\ endpointCall.requests = 3
  /\ endpointCall.waited = <<1000, 2000>>
  /\ endpointCall.error = "aborted"
  /\ endpointCall.errors[1].error = "no valid user"

\* the second attempt succeeds after one wait of 1 s
C36_WitnessSecond ==
  /\ endpointCall.name # "none"
  /\ endpointCall.stage = "resolved"
  /\ endpointCall.requests = 2
  /\ endpointCall.waited = <<1000>>
  /\ endpointCall.users = <<UserK>>

(***************************************************************************)
(* Storage utilities (src/unnamed/part_000)                                *)
(***************************************************************************)
\* 60 * 60 * 1000
CACHE_DURATION == 3600000
\* 1024 * 1024, the limit setCachedUsers compares the serialised list with
MaxCacheBytes == 1048576

\* the character "B" stands for a run of BigRun characters, so that a user
\* whose name is "B" and whose username has one character serialises, alone
\* in a list, to exactly MaxCacheBytes characters
BigRun == MaxCacheBytes - 28
CharLength(c) == IF c = "B" THEN BigRun ELSE 1

RECURSIVE StringLength(_)
StringLength(s) ==
  IF s = <<>> THEN 0 ELSE CharLength(Head(s)) + StringLength(Tail(s))

\* JSON.stringify(users).length for users without avatar:
\* [{"username":"..","name":".."},{..}]
RECURSIVE JSONLengthFrom(_, _)
JSONLengthFrom(users, i) ==
  IF i > Len(users) THEN 0
  ELSE 25 + StringLength(users[i].username) + StringLength(users[i].name)
       + (IF i < Len(users) THEN 1 ELSE 0)
       + JSONLengthFrom(users, i + 1)

JSONLength(users) == 2 + JSONLengthFrom(users, 1)

\* user && typeof user === 'object' && typeof user.username === 'string' &&
\* typeof user.name === 'string'
StorageValidEntry(e) ==
  /\ e.object
  /\ e.usernameType = "string"
  /\ e.nameType = "string"

CacheKeys == {"githubMentions_userCache", "githubMentions_cacheTimestamp"}

\* getCachedUsers() on the storage st
getCachedUsers(st) ==
  IF "githubMentions_userCache" \notin st.keys THEN <<>>
  ELSE LET cachedData == st.githubMentions_userCache
           kept == SelectSeq(cachedData, StorageValidEntry)
       IN  IF Len(kept) # Len(cachedData) THEN <<>> ELSE kept

\* setCachedUsers as it would be if it stored the valid entries of a list
\* that has invalid ones
setCachedUsers_Partial(st, users, t) ==
  IF users.kind # "array" THEN [ret |-> FALSE, storage |-> st]
  ELSE LET kept == SelectSeq(users.entries, StorageValidEntry)
       IN  IF JSONLength(kept) > MaxCacheBytes
           THEN [ret |-> FALSE, storage |-> st]
           ELSE [ret |-> TRUE,
                 storage |-> [st EXCEPT !.keys = @ \cup CacheKeys,
                                        !.githubMentions_userCache = kept,
                                        !.githubMentions_cacheTimestamp = t]]

\* setCachedUsers(users) on the storage st when Date.now() is t: what it
\* returns and the storage it leaves.  users is a JavaScript value: an array
\* of entries, or something that is not an array
setCachedUsers(st, users, t) ==
  IF users.kind # "array" THEN [ret |-> FALSE, storage |-> st]
  ELSE LET kept == SelectSeq(users.entries, StorageValidEntry)
       IN  IF Len(kept) # Len(users.entries)
           THEN [ret |-> FALSE, storage |-> st]
           ELSE IF JSONLength(kept) > MaxCacheBytes
           THEN [ret |-> FALSE, storage |-> st]
           ELSE [ret |-> TRUE,
                 storage |-> [st EXCEPT !.keys = @ \cup CacheKeys,
                                        !.githubMentions_userCache = kept,
                                        !.githubMentions_cacheTimestamp = t]]

\* clearCache()
clearCache(st) == [st EXCEPT !.keys = @ \ CacheKeys]

\* what getSettings() returns when nothing is stored
DefaultSettings == [endpointUrl |-> "", enabled |-> TRUE]

\* getSettings()
getSettings(st) ==
  IF "githubMentions_settings" \in st.keys
  THEN st.githubMentions_settings
  ELSE DefaultSettings

\* setSettings(settings): the object that is stored has the two properties
\* endpointUrl: settings.endpointUrl || '' and enabled: settings.enabled !== false
setSettings(st, s) ==
  [st EXCEPT !.keys = @ \cup {"githubMentions_settings"},
             !.githubMentions_settings =
                [endpointUrl |-> IF "endpointUrl" \in DOMAIN s THEN s.endpointUrl ELSE "",
                 enabled     |-> IF "enabled" \in DOMAIN s THEN s.enabled ELSE TRUE]]

\* isCacheExpired() when Date.now() is t
isCacheExpired(st, t) ==
  IF "githubMentions_cacheTimestamp" \notin st.keys THEN TRUE
  ELSE IF st.githubMentions_cacheTimestamp = 0 THEN TRUE      \* !timestamp
  ELSE t - st.githubMentions_cacheTimestamp > CACHE_DURATION

(***************************************************************************)
(* Scenario: values handed to setCachedUsers while time passes             *)
(***************************************************************************)
MaxHours == 2

\* users whose serialised length is at the limit of the cache
UserBig  == [username |-> <<"b">>, name |-> <<"B">>]
UserHuge == [username |-> <<"b">>, name |-> <<"B", "x">>]

\* the values handed to setCachedUsers: values that are not arrays, and
\* arrays without entries, of valid entries, with invalid entries, of
\* exactly one megabyte and of more
CacheValues ==
  { [kind |-> "object", entries |-> <<>>],
    [kind |-> "undefined", entries |-> <<>>] }
  \cup { [kind |-> "array", entries |-> es] :
           es \in EntryLists \cup { << Entry(UserBig) >>, << Entry(UserHuge) >>,
                                    << Entry(UserBig), Entry(UserK) >>,
                                    << Entry(UserBig), NullEntry >> } }

\* the times that pass between two calls, and the times of the hour at
\* which the clock is read: on the hour, a millisecond after and a
\* millisecond before
Delays == {1, CACHE_DURATION - 2, CACHE_DURATION - 1, CACHE_DURATION}
ClockReadings == {0, 1, HOUR_MS - 1}

InitCache == InitProgram /\ cachedUsers = <<>> /\ fn = NoCall /\ InitEnv

\* a call of the storage utilities; last keeps the value handed over and
\* what the call returned
StepCache(st, op, arg, ret) ==
  /\ storage' = st
  /\ last' = [op |-> op, arg |-> arg, inputs |-> 0, calls |-> {}, ret |-> ret]
  /\ UNCHANGED <<domVars, scriptVars, pageVars, loopVars, fn, apiVars, now>>

SetCachedUsers ==
  \E users \in CacheValues :
    LET set == setCachedUsers(storage, users, now)
    IN  StepCache(set.storage, "setCachedUsers", users, set.ret)

ClearCache ==
  /\ storage.keys # {}
  /\ StepCache(clearCache(storage), "clearCache", 0, TRUE)

\* time passes
Elapse ==
  \E d \in Delays :
    /\ now + d <= ClockStart + MaxHours * HOUR_MS
    /\ (now + d) % HOUR_MS \in ClockReadings
    /\ now' = now + d
    /\ last' = [op |-> "elapse", arg |-> d, inputs |-> 0, calls |-> {}]
    /\ UNCHANGED <<domVars, scriptVars, pageVars, loopVars, fn, apiVars, storage>>

NextCache ==
  \/ SetCachedUsers
  \/ ClearCache
  \/ Elapse

SpecCache == InitCache /\ [][NextCache]_vars

(***************************************************************************)
(* setCachedUsers is all-or-nothing (claim C38)                            *)
(***************************************************************************)
\* the value is not an array, has an entry that lacks a string username or a
\* string name, or serialises to more than one megabyte
Refused(users) ==
  \/ users.kind # "array"
  \/ \E i \in 1..Len(users.entries) : ~StorageValidEntry(users.entries[i])
  \/ JSONLength(users.entries) > MaxCacheBytes

\* C38: setCachedUsers given a value that is not an array, a list with an
\* entry lacking a string username or a string name, or a list serialising
\* to more than 1 MB returns false and leaves the stored user cache and its
\* timestamp as they were; when it returns true, getCachedUsers returns the
\* list it was given, and isCacheExpired is false while less than an hour
\* has passed since
C38_AllOrNothing ==
  /\ [][ last'.op = "setCachedUsers" =>
           /\ Refused(last'.arg) => (~last'.ret /\ storage' = storage)
           /\ ~last'.ret => storage' = storage
           /\ last'.ret => /\ getCachedUsers(storage') = last'.arg.entries
                           /\ ~isCacheExpired(storage', now') ]_vars
  /\ [][ (last'.op = "elapse"
          /\ "githubMentions_cacheTimestamp" \in storage.keys
          /\ now' - storage.githubMentions_cacheTimestamp < CACHE_DURATION)
           => ~isCacheExpired(storage', now') ]_vars

\* a list with an invalid entry was refused while an older list is stored,
\* and the older list is still what getCachedUsers returns
C38_WitnessRefused ==
  /\ last.op = "setCachedUsers"
  /\ ~last.ret
  /\ last.arg = [kind |-> "array", entries |-> << NullEntry, Entry(UserK) >>]
  /\ getCachedUsers(storage) = << Entry(UserJo) >>
  /\ ~isCacheExpired(storage, now)
  /\ now > storage.githubMentions_cacheTimestamp

(***************************************************************************)
(* The content script and the settings popup over the storage              *)
(***************************************************************************)
\* the users of a list of entries as the suggestions read them
UsersOf(entries) ==
  [i \in 1..Len(entries) |-> [username |-> entries[i].username, name |-> entries[i].name]]

\* the array of the users
ArrayOf(users) ==
  [kind |-> "array", entries |-> [i \in 1..Len(users) |-> Entry(users[i])]]

\* { ...s, f: v }
WithField(s, f, v) == [g \in DOMAIN s \cup {f} |-> IF g = f THEN v ELSE s[g]]

\* a settings object as the content script reads it: settings?.customCommands || {}
ReadSettings(s) ==
  IF "customCommands" \in DOMAIN s THEN s ELSE WithField(s, "customCommands", <<>>)

\* what a load returns: the state, the storage, whether cachedUsers was
\* assigned a loaded list and whether setCachedUsers returned true
Loaded(w, st, assigned, written) ==
  [w |-> w, storage |-> st, assigned |-> assigned, written |-> written]

\* loadUsersFromEndpoint() with the storage st, given how the endpoint
\* answers.  The avatars that enhanceUsersWithAvatars adds are not kept
loadUsersFromEndpointAndCache(w, st, response, t) ==
  IF w.settings.endpointUrl = "" THEN Loaded(w, st, FALSE, FALSE)
  ELSE LET fetched == fetchUsersFromEndpoint(response)
       IN  IF fetched.threw THEN Loaded(w, st, FALSE, FALSE)
           ELSE LET enhancedUsers == fetched.users
                    set == setCachedUsers(st, ArrayOf(enhancedUsers), t)
                IN  Loaded([w EXCEPT !.cachedUsers = enhancedUsers],
                           set.storage, TRUE, set.ret)

\* the direct branch of getUsersForSuggestions and of refreshUsers:
\* JSON.parse(currentSettings.directJsonData), the filter, setCachedUsers
\* and the assignment.  directJsonData is given by what JSON.parse makes of it
loadDirectUsers(w, st, directJsonData, t) ==
  IF directJsonData.kind = "array" /\ Len(directJsonData.entries) > 0
     /\ Len(validUsers(directJsonData.entries)) > 0
  THEN LET valid == validUsers(directJsonData.entries)
           set   == setCachedUsers(st, ArrayOf(valid), t)
       IN  Loaded([w EXCEPT !.cachedUsers = valid], set.storage, TRUE, set.ret)
  ELSE Loaded(w, st, FALSE, FALSE)

\* currentSettings.dataSource === 'direct' && currentSettings.directJsonData
DirectConfigured(s) ==
  /\ "dataSource" \in DOMAIN s
  /\ s.dataSource = "direct"
  /\ "directJsonData" \in DOMAIN s
  /\ s.directJsonData.kind # "empty"

\* currentSettings.dataSource === 'endpoint' && currentSettings.endpointUrl
EndpointConfigured(s) ==
  /\ "dataSource" \in DOMAIN s
  /\ s.dataSource = "endpoint"
  /\ s.endpointUrl # ""

\* getUsersForSuggestions() with the storage st
getUsersForSuggestionsStored(w, st, response, t) ==
  IF Len(w.cachedUsers) > 0 THEN Loaded(w, st, FALSE, FALSE)
  ELSE LET currentSettings == getSettings(st)
           direct == IF DirectConfigured(currentSettings)
                     THEN loadDirectUsers(w, st, currentSettings.directJsonData, t)
                     ELSE Loaded(w, st, FALSE, FALSE)
       IN  IF direct.assigned THEN direct
           ELSE IF EndpointConfigured(currentSettings) /\ isCacheExpired(st, t)
           THEN loadUsersFromEndpointAndCache(w, st, response, t)
           ELSE Loaded(w, st, FALSE, FALSE)

\* the refreshUsers message
refreshUsers(w, st, response, t) ==
  LET currentSettings == getSettings(st)
  IN  IF DirectConfigured(currentSettings)
      THEN loadDirectUsers(w, st, currentSettings.directJsonData, t)
      ELSE IF EndpointConfigured(currentSettings)
      THEN LET w1 == [w EXCEPT !.settings =
                        WithField(@, "endpointUrl", currentSettings.endpointUrl)]
           IN  loadUsersFromEndpointAndCache(w1, setSettings(st, w1.settings), response, t)
      ELSE Loaded(w, st, FALSE, FALSE)

\* the SETTINGS_UPDATED message while nothing is typed
settingsUpdated(w, st, s) ==
  [w EXCEPT !.settings = ReadSettings(s),
            !.cachedUsers = UsersOf(getCachedUsers(st))]

\* the module state of the content script and of dom.js when the script is
\* loaded into the page
FreshPage(w) ==
  [w EXCEPT !.overlay = FALSE, !.display = "none", !.popoverOpen = FALSE,
            !.overlayItems = <<>>, !.selectedIndex = 0, !.currentSelectedIndex = 0,
            !.position = "none", !.lastGoodPosition = "null",
            !.navAge = KEY_NAV_DELAY,
            !.activeInput = "none", !.mentionStartPos = NullPos,
            !.settings = NoSettings, !.cachedUsers = <<>>,
            !.isInitialized = FALSE, !.scanInterval = FALSE,
            !.page = << Element("ta", "new_comment_field") >>,
            !.value = <<>>, !.selectionStart = 0, !.keyHeld = "none",
            !.pending = <<>>, !.timers = <<>>]

\* initialize() with the storage st
initializeStored(w, st, response, t) ==
  LET w1 == initialize(w, [settings    |-> ReadSettings(getSettings(st)),
                           cachedUsers |-> UsersOf(getCachedUsers(st))])
  IN  IF w1.settings.endpointUrl # "" /\ Len(w1.cachedUsers) = 0
      THEN loadUsersFromEndpointAndCache(w1, st, response, t)
      ELSE Loaded(w1, st, FALSE, FALSE)

\* saveSettings() of the popup: the settings it builds from its form.
\* directJsonData is given by what JSON.parse makes of the text
newSettings(dataSource, url, directJsonData, customCommands) ==
  [dataSource     |-> dataSource,
   endpointUrl    |-> IF dataSource = "endpoint" THEN url ELSE "",
   directJsonData |-> IF dataSource = "direct" THEN directJsonData
                      ELSE [kind |-> "empty", entries |-> <<>>],
   enabled        |-> TRUE,
   customCommands |-> customCommands]

(***************************************************************************)
(* Scenario: the popup saves settings, pages are loaded and refreshed      *)
(***************************************************************************)
\* what the form of the popup holds
FormSettings ==
  { newSettings(dataSource, url, json, commands) :
      dataSource \in {"endpoint", "direct"},
      url \in {"", "https://e"},
      json \in { [kind |-> "array", entries |-> << Entry(UserJo), NumberEntry >>] },
      commands \in { <<>>, CustomCommands } }

\* how the endpoint answers: lists of users, one of exactly one megabyte,
\* one of more, and a failure
EndpointAnswers ==
  { [ok |-> TRUE, payload |-> [kind |-> "array", entries |-> es]] :
      es \in { << Entry(UserJo) >>, << Entry(UserJo), NumberEntry >>,
               << Entry(UserBig) >>, << Entry(UserBig), Entry(UserK) >> } }
  \cup { [ok |-> FALSE, payload |-> [kind |-> "unparsable", entries |-> <<>>]] }

InitStorage == InitLife /\ focus = "ta"

\* a step of the content script over the storage; last keeps what the load did
StepStored(r, op, arg) ==
  /\ Becomes(r.w)
  /\ storage' = r.storage
  /\ last' = [op |-> op, arg |-> arg, inputs |-> 0, calls |-> {},
              assigned |-> r.assigned, written |-> r.written]
  /\ UNCHANGED <<fn, apiVars, now>>

\* the popup saves its form; with saveSettingsAndRefresh the content script
\* of an initialized page receives SETTINGS_UPDATED
SaveSettings ==
  \E s \in FormSettings, notify \in BOOLEAN :
    LET st == setSettings(storage, s)
        w  == IF notify /\ isInitialized THEN settingsUpdated(World, st, s) ELSE World
    IN  /\ Becomes(w)
        /\ storage' = st
        /\ last' = [op |-> "saveSettings", arg |-> s, inputs |-> 0, calls |-> {},
                    notified |-> notify /\ isInitialized]
        /\ UNCHANGED <<fn, apiVars, now>>

\* the page is loaded: the content script starts afresh and initialize() runs
LoadPage ==
  \E response \in EndpointAnswers :
    StepStored(initializeStored(FreshPage(World), storage, response, now), "initialize", 0)

RefreshUsers ==
  /\ isInitialized
  /\ \E response \in EndpointAnswers :
       StepStored(refreshUsers(World, storage, response, now), "refreshUsers", 0)

\* a mention is typed: onKeyUp asks getUsersForSuggestions for the users
GetUsersForSuggestions ==
  /\ isInitialized
  /\ \E response \in EndpointAnswers :
       StepStored(getUsersForSuggestionsStored(World, storage, response, now),
                  "getUsersForSuggestions", 0)

NextStorage ==
  \/ SaveSettings
  \/ LoadPage
  \/ RefreshUsers
  \/ GetUsersForSuggestions
  \/ Elapse

SpecStorage == InitStorage /\ [][NextStorage]_vars

(***************************************************************************)
(* The cache in memory and the cache in the storage (claim C37)            *)
(***************************************************************************)
LoadOps == {"initialize", "refreshUsers", "getUsersForSuggestions"}

\* C37: when loadUsersFromEndpoint, the direct load of
\* getUsersForSuggestions or a refreshUsers message has completed, the
\* cachedUsers in memory are the users the storage holds (what
\* getCachedUsers returns), and cachedUsers was replaced only if the write
\* to the storage succeeded
C37_CacheCoherent ==
  [][ last'.op \in LoadOps =>
        /\ cachedUsers' = UsersOf(getCachedUsers(storage'))
        /\ last'.assigned => last'.written ]_vars

\* C37 for the loads whose write succeeded: memory and storage agree
C37_CoherentWhenWritten ==
  [][ (last'.op \in LoadOps /\ last'.written) =>
        cachedUsers' = UsersOf(getCachedUsers(storage')) ]_vars

\* the endpoint answered with more than a megabyte of users: they are in
\* memory and the storage holds no user
C37_WitnessMemoryOnly ==
  /\ last.op = "initialize"
  /\ last.assigned /\ ~last.written
  /\ cachedUsers = << UserBig, UserK >>
  /\ getCachedUsers(storage) = <<>>

(***************************************************************************)
(* Settings saved and read back (claim C39)                                *)
(***************************************************************************)
SettingsFields == {"dataSource", "directJsonData", "customCommands", "endpointUrl", "enabled"}

\* C39: after setSettings(s), getSettings returns the dataSource, the
\* directJsonData, the customCommands, the endpointUrl and the enabled flag
\* of s
C39_SettingsRoundTrip ==
  [][ last'.op = "saveSettings" =>
        \A f \in SettingsFields :
          /\ f \in DOMAIN getSettings(storage')
          /\ getSettings(storage')[f] = last'.arg[f] ]_vars

\* C39 for the two properties setSettings stores
C39_TwoFieldsKept ==
  [][ last'.op = "saveSettings" =>
        /\ getSettings(storage').endpointUrl = last'.arg.endpointUrl
        /\ getSettings(storage').enabled = last'.arg.enabled ]_vars

\* a page loaded after the popup has saved settings offers the built-in
\* command only, and its settings name no data source
C39_WitnessCommandsLost ==
  /\ last.op = "initialize"
  /\ "githubMentions_settings" \in storage.keys
  /\ storage.githubMentions_settings.endpointUrl = "https://e"
  /\ Len(getAvailableCommands(World)) = 1
  /\ "dataSource" \notin DOMAIN settings

(***************************************************************************)
(* Stale responses (claims C1 and C2)                                      *)
(***************************************************************************)
overlayState == <<display, popoverOpen, overlayItems, selectedIndex>>

\* the request was started by a keystroke whose mention trigger and query
\* the text and the cursor no longer yield
Stale(req) ==
  scanForTrigger(value, selectionStart) # [matched |-> TRUE, query |-> req.mentionQuery]

\* this step is the continuation of onKeyUp for the request pending[i]
Resumes(i) ==
  /\ i \in 1..Len(pending)
  /\ pending[i].kind = "users"
  /\ last'.op = "resumeOnKeyUp"
  /\ last'.arg = i
  /\ pending' = Without(pending, i)

\* C1: when the candidate request of a mention keystroke completes after the
\* text and the cursor have stopped yielding that keystroke's trigger and
\* query, the continuation does not call showOverlay and leaves the
\* overlay's items, selection and visibility as they are
C1_StaleResponseDiscarded ==
  [][ \A i \in 1..MaxPending :
        Resumes(i) /\ Stale(pending[i])
          => "showOverlay" \notin last'.calls /\ UNCHANGED overlayState ]_vars

\* C2: of two keystrokes whose candidate requests are both in flight, the
\* newer one decides the overlay and mentionStartPos also when its request
\* completes first: the later completion of the older request changes nothing
C2_LastWriteWins ==
  [][ ( /\ last.op = "resumeOnKeyUp"
        /\ last.arg = 2
        /\ Len(pending) = 1
        /\ Resumes(1) )
      => UNCHANGED <<overlayState, mentionStartPos>> ]_vars

=============================================================================
